---------------------------- MODULE Spec2Model ----------------------------
(***************************************************************************)
(* Model of src/realtime_token_processor.py (class RealTimeProcessor):     *)
(*   - the performance governor (_record_stage_time,                       *)
(*     _get_average_stage_time, _update_performance_profile),              *)
(*   - the interface-template cache (_capture_direct_search_template,      *)
(*     _direct_fetch_tokens, _register_direct_search_failure),             *)
(*   - the batch loop (process_batch_realtime,                             *)
(*     process_single_patent_realtime, save_results_realtime),             *)
(*   - the response decoder (_iter_decoded_variants,                       *)
(*     _parse_search_response_for_tokens and its extractors),              *)
(*   - the record fetcher (fetch_details_immediately,                      *)
(*     parse_patent_json_for_details, is_organization),                    *)
(*   - the search driver (search_patent_with_guards,                       *)
(*     _adaptive_wait_timeout, _record_search_context),                    *)
(* and of src/pdf_downloader.py (class PatentPDFDownloaderAPI):            *)
(*   - the PDF downloader (process_patent, _download_pdf_with_requests).   *)
(* The specifications share the processor's state:                         *)
(*   Spec          the batch loop, one run of process_batch_realtime;      *)
(*   SpecRefresh   the batch loop from its first session refresh on;       *)
(*   SpecGovernor  the governor's methods called in any order;             *)
(*   SpecWindow    the stage windows, nearly full, and their average;      *)
(*   SpecTemplate  the template cache's methods called in any order;       *)
(*   SpecDecoder   one call of _iter_decoded_variants;                     *)
(*   SpecParse     one call of _parse_search_response_for_tokens;          *)
(*   SpecFetch     one call of fetch_details_immediately;                  *)
(*   SpecSearch    calls of search_patent_with_guards in any governor      *)
(*                 state;                                                  *)
(*   SpecPdf       one call of process_patent.                             *)
(***************************************************************************)
EXTENDS Integers, Sequences, FiniteSets, TLC

(***************************************************************************)
(* Bounds of the model.                                                    *)
(***************************************************************************)
NumIds == 2          \* distinct identifiers (patent numbers)
MaxList == 2         \* longest input list of process_batch_realtime
MaxSamples == 3      \* stage-time samples recorded in SpecGovernor
MaxStreak == 4       \* cap of success_streak in SpecGovernor
MaxTime == 360       \* the clock stops advancing here (seconds)

(***************************************************************************)
(* Program constants.                                                      *)
(***************************************************************************)
fast_mode_trigger == 3
max_speed_samples == 20
refresh_every == 20  \* the session is refreshed after every 20th turn
\* self.direct_search_timeout is set by the base class BatchTokenExtractor
\* (batch_token_extractor_optimized_best, not part of the sources).
direct_search_timeout == 6

PatentIds == 1..NumIds
Stages == {"search", "token", "fetch"}
StageDurations == {4, 20}
TickSteps == {60, 180}

VARIABLES
  \* ---- RealTimeProcessor fields (governor)
  performance_mode, success_streak, last_search_used_fallback, speed_stats,
  search_success_count, search_fail_count,
  \* ---- RealTimeProcessor fields (template cache); now is time.time()
  direct_search_template, direct_search_failures,
  direct_search_disabled_until, direct_search_blocklist, now,
  \* ---- process_batch_realtime: arguments, files, locals, position
  patent_list, skip_search, skip_unavailable, output_file, failed_file,
  unavailable_file, completed_patents, existing_results, remaining_patents,
  results, failed_patents, unavailable_patents, consecutive_failures,
  consecutive_not_found, i, pc, returned, stage_duration,
  \* ---- history (not program state): the last call and what preceded it
  gov_call, normal_run, tpl_call, tpl_hist, attempted, produced,
  prior_output,
  \* ---- _iter_decoded_variants: argument, locals, position
  value, queue, seen, variants, dec_pc,
  \* ---- _parse_search_response_for_tokens: arguments, result, position
  text, content_type, tokens, parse_pc,
  \* ---- fetch_details_immediately: argument, the API calls made and their
  \* responses, whether an exception was raised inside, result, position
  fetch_tokens, calls, common_info, base_info, fetch_exc, fetched, fetch_pc,
  \* ---- process_batch_realtime: how the last periodic session refresh went
  \* (history)
  last_refresh,
  \* ---- search_patent_with_guards: the attempts made (history), result,
  \* position; the requests the primary search left in the browser's
  \* performance log and the diagnostic captures taken (history)
  search_log, search_result, search_pc, search_traffic, search_captures,
  \* ---- _record_stage_time: every sample recorded for each stage name and
  \* the number of calls made (history); the last call of
  \* _get_average_stage_time and its result
  stage_log, records_made, average_read,
  \* ---- PatentPDFDownloaderAPI.process_patent (src/pdf_downloader.py): the
  \* attempt number, the file at the PDF's path, the last call of
  \* _download_pdf_with_requests and its result (history), the field
  \* successful_patents, why the identifier was put in it (history), the
  \* result, position
  pdf_attempt, pdf_disk, pdf_call, successful_patents, pdf_counted,
  pdf_returned, pdf_pc

govVars == <<performance_mode, success_streak, last_search_used_fallback,
             speed_stats, search_success_count, search_fail_count,
             gov_call, normal_run>>
tplVars == <<direct_search_template, direct_search_failures,
             direct_search_disabled_until, direct_search_blocklist, now,
             tpl_call, tpl_hist>>
batchArgs == <<patent_list, skip_search, skip_unavailable, stage_duration,
               prior_output>>
batchVars == <<patent_list, skip_search, skip_unavailable, output_file,
               failed_file, unavailable_file, completed_patents,
               existing_results, remaining_patents, results, failed_patents,
               unavailable_patents, consecutive_failures,
               consecutive_not_found, i, pc, returned, stage_duration,
               attempted, produced, prior_output>>
decVars == <<value, queue, seen, variants, dec_pc>>
parseVars == <<text, content_type, tokens, parse_pc>>
fetchVars == <<fetch_tokens, calls, common_info, base_info, fetch_exc, fetched,
               fetch_pc>>
pureVars == <<decVars, parseVars, fetchVars>>
refreshVars == <<last_refresh>>
searchVars == <<search_log, search_result, search_pc, search_traffic,
                search_captures>>
windowVars == <<stage_log, records_made, average_read>>
pdfVars == <<pdf_attempt, pdf_disk, pdf_call, successful_patents, pdf_counted,
             pdf_returned, pdf_pc>>
auxVars == <<refreshVars, searchVars, windowVars, pdfVars>>
vars == <<govVars, tplVars, batchVars, pureVars, auxVars>>

(***************************************************************************)
(* Helpers.                                                                *)
(***************************************************************************)
RECURSIVE SumSeq(_)
SumSeq(s) == IF s = <<>> THEN 0 ELSE Head(s) + SumSeq(Tail(s))

Max(a, b) == IF a >= b THEN a ELSE b
Min(a, b) == IF a <= b THEN a ELSE b

Range(s) == {s[k] : k \in 1..Len(s)}

RECURSIVE SelectNotIn(_, _)
\* [p for p in s if p not in S]
SelectNotIn(s, S) ==
  IF s = <<>> THEN <<>>
  ELSE IF Head(s) \in S THEN SelectNotIn(Tail(s), S)
       ELSE <<Head(s)>> \o SelectNotIn(Tail(s), S)

\* every sequence over S of length at most n
SeqsUpTo(S, n) == UNION {[1..k -> S] : k \in 0..n}

(***************************************************************************)
(* PerformanceGovernor                                                     *)
(***************************************************************************)
\* _record_stage_time, a bug variant: on overflow the newest sample is
\* dropped
RecordEvictsNewest(stats, stage, duration) ==
  IF stage \notin DOMAIN stats THEN stats
  ELSE LET s == Append(stats[stage], duration) IN
       [stats EXCEPT ![stage] =
          IF Len(s) > max_speed_samples THEN stats[stage] ELSE s]

\* _record_stage_time: append, evict the oldest beyond max_speed_samples;
\* an unknown stage changes nothing.
record_stage_time(stats, stage, duration) ==
  IF stage \notin DOMAIN stats THEN stats
  ELSE LET s == Append(stats[stage], duration) IN
       [stats EXCEPT ![stage] =
          IF Len(s) > max_speed_samples THEN Tail(s) ELSE s]

\* None, as the result of _get_average_stage_time
NoAverage == [null |-> TRUE, sum |-> 0, len |-> 1]

\* _get_average_stage_time(stage): None when the stage has no window or an
\* empty one, else sum(stats) / len(stats), kept as the fraction sum/len
get_average_stage_time(stats, stage) ==
  IF stage \notin DOMAIN stats \/ stats[stage] = <<>> THEN NoAverage
  ELSE [null |-> FALSE, sum |-> SumSeq(stats[stage]), len |-> Len(stats[stage])]

\* `avg and avg > k` for avg = _get_average_stage_time(stage): None on an
\* empty window, else sum/len.  sum/len > k is compared without dividing.
AverageAbove(stats, stage, k) ==
  /\ stats[stage] # <<>>
  /\ SumSeq(stats[stage]) # 0
  /\ SumSeq(stats[stage]) > k * Len(stats[stage])

\* _update_performance_profile, a bug variant: a failure leaves the streak
UpdateKeepsStreak(mode, streak, stats, success, used_fallback) ==
  IF ~success THEN [mode |-> "normal", streak |-> streak]
  ELSE IF used_fallback THEN [mode |-> "normal", streak |-> 0]
  ELSE IF mode = "normal" /\ streak + 1 >= fast_mode_trigger
         THEN [mode |-> "fast", streak |-> 0]
  ELSE IF mode = "fast" /\ AverageAbove(stats, "search", 12)
         THEN [mode |-> "normal", streak |-> 0]
  ELSE [mode |-> mode, streak |-> streak + 1]

\* _update_performance_profile, a bug variant: the fallback is ignored in
\* fast mode
UpdateIgnoresFallback(mode, streak, stats, success, used_fallback) ==
  IF ~success THEN [mode |-> "normal", streak |-> 0]
  ELSE IF used_fallback /\ mode = "normal"
         THEN [mode |-> "normal", streak |-> 0]
  ELSE IF mode = "normal" /\ streak + 1 >= fast_mode_trigger
         THEN [mode |-> "fast", streak |-> 0]
  ELSE IF mode = "fast" /\ AverageAbove(stats, "search", 12)
         THEN [mode |-> "normal", streak |-> 0]
  ELSE [mode |-> mode, streak |-> streak + 1]

\* _update_performance_profile: the mode and streak after the call
update_performance_profile(mode, streak, stats, success, used_fallback) ==
  IF ~success THEN [mode |-> "normal", streak |-> 0]
  ELSE IF used_fallback THEN [mode |-> "normal", streak |-> 0]
  ELSE IF mode = "normal" /\ streak + 1 >= fast_mode_trigger
         THEN [mode |-> "fast", streak |-> 0]
  ELSE IF mode = "fast" /\ AverageAbove(stats, "search", 12)
         THEN [mode |-> "normal", streak |-> 0]
  ELSE [mode |-> mode, streak |-> streak + 1]

NoGovCall == [op |-> "none", success |-> FALSE, used_fallback |-> FALSE,
              mode_before |-> "none", run_before |-> 0]

\* history kept beside a call of _update_performance_profile: the call, the
\* mode it found, and the number of consecutive non-fallback successes
\* reported so far while the mode has been normal
GovHistory(success, used_fallback, mode_after) ==
  /\ gov_call' = [op |-> "update", success |-> success,
                  used_fallback |-> used_fallback,
                  mode_before |-> performance_mode,
                  run_before |-> normal_run]
  /\ normal_run' = IF mode_after = "normal" /\ performance_mode = "normal"
                      /\ success /\ ~used_fallback
                   THEN normal_run + 1 ELSE 0

\* RealTimeProcessor.__init__
InitProcessor ==
  /\ search_success_count = 0
  /\ search_fail_count = 0
  /\ performance_mode = "fast"
  /\ success_streak = 0
  /\ last_search_used_fallback = FALSE
  /\ speed_stats = [s \in Stages |-> <<>>]
  /\ gov_call = NoGovCall
  /\ normal_run = 0

(***************************************************************************)
(* InterfaceTemplateCache                                                  *)
(***************************************************************************)
MaxLog == 2          \* longest performance log handed to the capture

\* self.direct_search_template = None
NoTemplate == [url |-> "None", method |-> "None", headers |-> {},
               body_template |-> "None"]

\* reasons passed to _register_direct_search_failure; the two decode/parse
\* reasons are the strings of lines 343 and 347
ParseReasons == {"parse_failed", "no_tokens"}

\* what driver.execute_async_script (the browser fetch) can give
BrowserOutcomes == {"ok", "script_timeout", "exec_exception", "no_response",
                    "error", "not_ok_status", "not_ok_nostatus"}
\* what _execute_direct_search_via_requests can give
RequestsOutcomes == {"ok", "error", "not_ok"}
\* what _parse_search_response_for_tokens can give
ParseOutcomes == {"tokens", "no_tokens", "exception"}

\* lines 282-305: the reason left by the browser attempt ("none": no reason)
BrowserReason(b) ==
  CASE b = "ok" -> "none"
    [] b = "script_timeout" -> "script_timeout"
    [] b = "exec_exception" -> "exec_exception"
    [] b = "no_response" -> "no_response"
    [] b = "error" -> "response_error"
    [] b = "not_ok_status" -> "status_code"
    [] OTHER -> "request_failed"

\* lines 315-321: the reason after a failed requests fallback
FallbackReason(reason, q) ==
  CASE q = "error" -> "requests_error"
    [] q = "not_ok" -> "status_code"
    [] OTHER -> reason

\* line 361
cooldown == Max(180, direct_search_timeout * 10)

\* lines 273-274, a bug variant: the cooldown is never consulted
CooldownIgnored(until, t) == FALSE

\* lines 273-274: the template is disabled at time t
CooldownActive(until, t) == until # 0 /\ t < until

\* line 360, a bug variant: one failure more is needed
TripsAtFour(failures) == failures >= 4

\* line 360
TripsCooldown(failures) == failures >= 3

\* line 353
ClearsTemplate(failures, reason) == failures >= 2 /\ reason \in ParseReasons

\* line 356, a bug variant: only one of the two decode/parse reasons counts
BlocklistsNoTokensOnly(patent_no, reason) ==
  patent_no \in PatentIds /\ reason = "no_tokens"

\* line 356: `patent_no and reason_text in {...}`
Blocklists(patent_no, reason) ==
  patent_no \in PatentIds /\ reason \in ParseReasons

\* lines 269-270, a bug variant: the denylist is never consulted
DenylistIgnored(patent_no, blocklist) == FALSE

\* lines 269-270: `patent_no in self.direct_search_blocklist`
Blocklisted(patent_no, blocklist) == patent_no \in blocklist

\* lines 203-204 and 241-255, a bug variant: a found request replaces the
\* template that is set
InstallsOverExisting(template, built) == built # NoTemplate

\* lines 203-204 and 241-255: the capture installs the template it built
\* only when none is set
Installs(template, built) == template = NoTemplate /\ built # NoTemplate

\* _register_direct_search_failure at time t, on the ledger
\* c = [template, failures, disabled_until, blocklist]
register_direct_search_failure(c, reason, patent_no, t) ==
  LET f == c.failures + 1 IN
  [template |-> IF ClearsTemplate(f, reason) THEN NoTemplate ELSE c.template,
   failures |-> f,
   blocklist |-> IF Blocklists(patent_no, reason)
                 THEN c.blocklist \cup {patent_no} ELSE c.blocklist,
   disabled_until |-> IF TripsCooldown(f) THEN t + cooldown
                      ELSE c.disabled_until]

Ledger == [template |-> direct_search_template,
           failures |-> direct_search_failures,
           disabled_until |-> direct_search_disabled_until,
           blocklist |-> direct_search_blocklist]

SetLedger(c) ==
  /\ direct_search_template' = c.template
  /\ direct_search_failures' = c.failures
  /\ direct_search_disabled_until' = c.disabled_until
  /\ direct_search_blocklist' = c.blocklist

\* ---- the performance log read by _capture_direct_search_template
SafeHeaders == {"accept", "content-type", "x-requested-with", "origin",
                "referer"}

\* entries of driver.get_log('performance'): the message method, whether the
\* request URL / postData contain the patent number, the URL scheme and host
LogEntries ==
  { [method |-> "Network.requestWillBeSent", url_has_id |-> TRUE,
     url_http |-> TRUE, host |-> "incopat", post |-> "",
     http_method |-> "GET", headers |-> {"accept", "cookie"}],
    [method |-> "Network.requestWillBeSent", url_has_id |-> FALSE,
     url_http |-> TRUE, host |-> "incopat", post |-> "with_id",
     http_method |-> "POST", headers |-> {"content-type", "user-agent"}],
    [method |-> "Network.requestWillBeSent", url_has_id |-> TRUE,
     url_http |-> TRUE, host |-> "incopat", post |-> "plain",
     http_method |-> "POST", headers |-> {"referer"}],
    [method |-> "Network.responseReceived", url_has_id |-> TRUE,
     url_http |-> TRUE, host |-> "incopat", post |-> "",
     http_method |-> "GET", headers |-> {}],
    [method |-> "Network.requestWillBeSent", url_has_id |-> TRUE,
     url_http |-> TRUE, host |-> "foreign", post |-> "",
     http_method |-> "GET", headers |-> {"accept"}],
    [method |-> "Network.requestWillBeSent", url_has_id |-> FALSE,
     url_http |-> TRUE, host |-> "incopat", post |-> "plain",
     http_method |-> "POST", headers |-> {"accept"}],
    [method |-> "Network.requestWillBeSent", url_has_id |-> TRUE,
     url_http |-> FALSE, host |-> "none", post |-> "",
     http_method |-> "GET", headers |-> {}] }

\* lines 215-230: the entry is a request carrying the patent number to an
\* http(s) URL whose host, when it has one, is the site's
IsCandidate(e) ==
  /\ e.method = "Network.requestWillBeSent"
  /\ (e.url_has_id \/ e.post = "with_id")
  /\ e.url_http
  /\ ~(e.host # "none" /\ e.host # "incopat")

\* candidate = None
NoCandidate == [method |-> "None", url_has_id |-> FALSE, url_http |-> FALSE,
                host |-> "none", post |-> "", http_method |-> "None",
                headers |-> {}]

RECURSIVE LastCandidate(_)
\* lines 210-239: the first candidate of reversed(logs), or NoCandidate
LastCandidate(logs) ==
  IF logs = <<>> THEN NoCandidate
  ELSE IF IsCandidate(logs[Len(logs)]) THEN logs[Len(logs)]
       ELSE LastCandidate(SubSeq(logs, 1, Len(logs) - 1))

\* lines 244-262: the template built from a candidate, or NoTemplate when
\* the request has no body and the URL lacks the patent number
BuildTemplate(e) ==
  IF e.post = "" /\ ~e.url_has_id THEN NoTemplate
  ELSE [url |-> IF e.url_has_id THEN "url{PATENT_NO}" ELSE "url",
        method |-> e.http_method,
        headers |-> e.headers \cap SafeHeaders,
        body_template |-> CASE e.post = "" -> "None"
                            [] e.post = "with_id" -> "body{PATENT_NO}"
                            [] OTHER -> "body"]

NoTplCall == [op |-> "none", patent_no |-> 0, issued |-> FALSE,
              result |-> "None", failure |-> "none", had_template |-> FALSE,
              prev_before |-> "none", trip_before |-> 0,
              live_before |-> 0, log_candidate |-> FALSE]

\* history of the template cache: the cooldown timestamp set by the latest
\* third failure (`trip`; `trip_live` is the same, forgotten when a capture
\* installs a template), the failures recorded since the template was
\* captured (`since_capture`, counted up to 3), the failures in a row with
\* no success, capture or expired cooldown between them (`in_a_row`, counted
\* up to 3), and the kind of the last recorded replay outcome (`prev`)
NoTplHist == [trip |-> 0, trip_live |-> 0, since_capture |-> 0,
              in_a_row |-> 0, prev |-> "none"]

\* the state BatchTokenExtractor.__init__ leaves (the base class is not part
\* of the sources): no template, an empty ledger
InitTemplateCache ==
  /\ direct_search_template = NoTemplate
  /\ direct_search_failures = 0
  /\ direct_search_disabled_until = 0
  /\ direct_search_blocklist = {}
  /\ now = 60
  /\ tpl_call = NoTplCall
  /\ tpl_hist = NoTplHist

\* lines 263-264, a bug variant: installing a template leaves the failure
\* counter and the cooldown timestamp as they were
CaptureKeepsLedger(p, log_ok, logs) ==
  LET cand == IF log_ok THEN LastCandidate(logs) ELSE NoCandidate
      built == IF cand = NoCandidate THEN NoTemplate ELSE BuildTemplate(cand)
      installs == Installs(direct_search_template, built)
  IN
  /\ tpl_call' = [NoTplCall EXCEPT !.op = "capture", !.patent_no = p,
                    !.had_template = (direct_search_template # NoTemplate),
                    !.result = IF installs THEN "installed" ELSE "None",
                    !.log_candidate = (built # NoTemplate),
                    !.prev_before = tpl_hist.prev,
                    !.trip_before = tpl_hist.trip,
                    !.live_before = tpl_hist.trip_live]
  /\ IF installs
     THEN /\ direct_search_template' = built
          /\ UNCHANGED <<direct_search_failures, direct_search_disabled_until>>
          /\ tpl_hist' = [tpl_hist EXCEPT !.trip_live = 0,
                            !.since_capture = 0, !.in_a_row = 0,
                            !.prev = "none"]
     ELSE UNCHANGED <<direct_search_template, direct_search_failures,
                      direct_search_disabled_until, tpl_hist>>
  /\ UNCHANGED <<direct_search_blocklist, now>>

\* _capture_direct_search_template(driver, patent_no); log_ok is FALSE when
\* driver.get_log raises
CaptureTemplate(p, log_ok, logs) ==
  LET cand == IF log_ok THEN LastCandidate(logs) ELSE NoCandidate
      built == IF cand = NoCandidate THEN NoTemplate ELSE BuildTemplate(cand)
      installs == Installs(direct_search_template, built)
  IN
  /\ tpl_call' = [NoTplCall EXCEPT !.op = "capture", !.patent_no = p,
                    !.had_template = (direct_search_template # NoTemplate),
                    !.result = IF installs THEN "installed" ELSE "None",
                    !.log_candidate = (built # NoTemplate),
                    !.prev_before = tpl_hist.prev,
                    !.trip_before = tpl_hist.trip,
                    !.live_before = tpl_hist.trip_live]
  /\ IF installs
     THEN /\ direct_search_template' = built
          /\ direct_search_failures' = 0
          /\ direct_search_disabled_until' = 0
          /\ tpl_hist' = [tpl_hist EXCEPT !.trip_live = 0,
                            !.since_capture = 0, !.in_a_row = 0,
                            !.prev = "none"]
     ELSE UNCHANGED <<direct_search_template, direct_search_failures,
                      direct_search_disabled_until, tpl_hist>>
  /\ UNCHANGED <<direct_search_blocklist, now>>

\* history after a replay outcome recorded at time t: "success" or a failure
\* with its reason; c is the ledger the call leaves
OutcomeHistory(reason, c, t, expired) ==
  LET base == IF expired
              THEN [tpl_hist EXCEPT !.in_a_row = 0] ELSE tpl_hist IN
  IF reason = "none"
  THEN [base EXCEPT !.in_a_row = 0, !.prev = "success"]
  ELSE [base EXCEPT
          !.since_capture = Min(3, @ + 1),
          !.in_a_row = Min(3, @ + 1),
          !.prev = IF reason \in ParseReasons THEN "parse" ELSE "transport",
          !.trip = IF c.failures >= 3 THEN c.disabled_until ELSE @,
          !.trip_live = IF c.failures >= 3 THEN c.disabled_until ELSE @]

\* _direct_fetch_tokens(driver, patent_no), lines 269-277: the calls that
\* return None before any request is made
DirectFetchRefused(p) ==
  /\ \/ Blocklisted(p, direct_search_blocklist)
     \/ direct_search_template = NoTemplate
     \/ CooldownActive(direct_search_disabled_until, now)
  /\ tpl_call' = [NoTplCall EXCEPT !.op = "fetch", !.patent_no = p,
                    !.had_template = (direct_search_template # NoTemplate),
                    !.prev_before = tpl_hist.prev,
                    !.trip_before = tpl_hist.trip,
                    !.live_before = tpl_hist.trip_live]
  /\ UNCHANGED <<direct_search_template, direct_search_failures,
                 direct_search_disabled_until, direct_search_blocklist, now,
                 tpl_hist, last_search_used_fallback>>

\* _direct_fetch_tokens(driver, patent_no), lines 273-348: the replay is
\* made.  b, q, r are what the browser fetch, the requests fallback and the
\* response parser give.  The call reads the clock once: the time the
\* requests take passes in Tick.
DirectFetchIssued(p, b, q, r) ==
  /\ ~Blocklisted(p, direct_search_blocklist)
  /\ direct_search_template # NoTemplate
  /\ ~CooldownActive(direct_search_disabled_until, now)
  /\ LET expired == direct_search_disabled_until # 0
         \* lines 276-277: an elapsed cooldown resets the ledger
         c0 == IF expired
               THEN [Ledger EXCEPT !.disabled_until = 0, !.failures = 0]
               ELSE Ledger
         t == now
         reason1 == BrowserReason(b)
         transport_failed == reason1 # "none" /\ q # "ok"
         reason == IF transport_failed THEN FallbackReason(reason1, q)
                   ELSE IF r = "tokens" THEN "none"
                   ELSE IF r = "exception" THEN "parse_failed"
                   ELSE "no_tokens"
         c1 == IF reason = "none"
               THEN [c0 EXCEPT !.failures = 0, !.disabled_until = 0]
               ELSE register_direct_search_failure(c0, reason, p, t)
     IN
     /\ SetLedger(c1)
     /\ UNCHANGED now
     /\ last_search_used_fallback' =
          IF reason = "none" THEN FALSE ELSE last_search_used_fallback
     /\ tpl_call' = [op |-> "fetch", patent_no |-> p, issued |-> TRUE,
                     result |-> IF reason = "none" THEN "tokens" ELSE "None",
                     failure |-> reason, had_template |-> TRUE,
                     prev_before |-> tpl_hist.prev,
                     trip_before |-> tpl_hist.trip,
                     live_before |-> tpl_hist.trip_live,
                     log_candidate |-> FALSE]
     /\ tpl_hist' = OutcomeHistory(reason, c1, t, expired)

\* the ways a replay can go: the fallback is only tried after a failed
\* browser attempt, the parser only runs on a response
ReplayRuns ==
  {<<"ok", "ok", r>> : r \in ParseOutcomes}
  \cup {<<b, "ok", r>> : b \in BrowserOutcomes \ {"ok"}, r \in ParseOutcomes}
  \cup {<<b, q, "no_tokens">> : b \in BrowserOutcomes \ {"ok"},
                               q \in RequestsOutcomes \ {"ok"}}

\* time.time() advances between calls
Tick(d) ==
  /\ now + d <= MaxTime
  /\ now' = now + d
  /\ tpl_call' = [NoTplCall EXCEPT !.op = "tick"]
  /\ UNCHANGED <<direct_search_template, direct_search_failures,
                 direct_search_disabled_until, direct_search_blocklist,
                 tpl_hist>>

\* the capture is called while a template is set (it returns before the
\* log is read, so logs of one entry stand for all logs)
TplCaptureWhenSet ==
  /\ direct_search_template # NoTemplate
  /\ \E p \in PatentIds, logs \in SeqsUpTo(LogEntries, 1) :
       CaptureTemplate(p, TRUE, logs)
  /\ UNCHANGED <<govVars, batchVars, pureVars, auxVars>>

\* the capture is called while no template is set
TplCapture ==
  /\ direct_search_template = NoTemplate
  /\ \E p \in PatentIds :
       \/ CaptureTemplate(p, FALSE, <<>>)
       \/ \E logs \in SeqsUpTo(LogEntries, MaxLog) :
            CaptureTemplate(p, TRUE, logs)
  /\ UNCHANGED <<govVars, batchVars, pureVars, auxVars>>

TplFetchRefused ==
  /\ \E p \in PatentIds : DirectFetchRefused(p)
  /\ UNCHANGED <<performance_mode, success_streak, speed_stats,
                 search_success_count, search_fail_count, gov_call,
                 normal_run, batchVars, pureVars, auxVars>>

TplFetchIssued ==
  /\ \E p \in PatentIds, run \in ReplayRuns :
       DirectFetchIssued(p, run[1], run[2], run[3])
  /\ UNCHANGED <<performance_mode, success_streak, speed_stats,
                 search_success_count, search_fail_count, gov_call,
                 normal_run, batchVars, pureVars, auxVars>>

TplTick ==
  /\ \E d \in TickSteps : Tick(d)
  /\ UNCHANGED <<govVars, batchVars, pureVars, auxVars>>

(***************************************************************************)
(* The governor's methods, called in any order (SpecGovernor).             *)
(***************************************************************************)
TotalSamples == Len(speed_stats["search"]) + Len(speed_stats["token"])
                + Len(speed_stats["fetch"])

\* a call of _update_performance_profile(success, used_fallback)
GovUpdate ==
  /\ success_streak < MaxStreak
  /\ \E success \in BOOLEAN, used_fallback \in BOOLEAN :
       LET r == update_performance_profile(performance_mode, success_streak,
                                           speed_stats, success, used_fallback)
       IN /\ performance_mode' = r.mode
          /\ success_streak' = r.streak
          /\ GovHistory(success, used_fallback, r.mode)
  /\ UNCHANGED <<last_search_used_fallback, speed_stats,
                 search_success_count, search_fail_count, tplVars, batchVars, pureVars, auxVars>>

\* a call of _record_stage_time(stage, duration)
GovRecordStage ==
  /\ TotalSamples < MaxSamples
  /\ \E stage \in Stages \cup {"login"}, d \in StageDurations :
       /\ speed_stats' = record_stage_time(speed_stats, stage, d)
       /\ gov_call' = [NoGovCall EXCEPT !.op = "record",
                         !.mode_before = performance_mode]
  /\ UNCHANGED <<performance_mode, success_streak, last_search_used_fallback,
                 search_success_count, search_fail_count, normal_run,
                 tplVars, batchVars, pureVars, auxVars>>

(***************************************************************************)
(* BatchOrchestrator: process_batch_realtime                               *)
(***************************************************************************)
MaxPrior == 2        \* most records in the output file found at the start
MaxLong == 6         \* longest input list of distinct identifiers
MaxTail == 2         \* most identifiers left after the first session refresh

\* a PatentRecord: its key, and `details` for the eight other fields (where
\* the record came from)
Rec(p, d) == [patent_no |-> p, details |-> d]

\* a file: absent, unreadable as JSON (a write that was cut short), or a
\* JSON array
AbsentFile == [state |-> "absent", records |-> <<>>]
CorruptFile == [state |-> "corrupt", records |-> <<>>]
JsonFile(rs) == [state |-> "json", records |-> rs]

IsAscending(s) == \A a, b \in 1..Len(s) : a < b => s[a] < s[b]

\* the output files an earlier run can have left: every record has its
\* patent_no, once (the identifiers are listed in ascending order: the input
\* lists below come in every order)
PriorFiles ==
  {AbsentFile, CorruptFile} \cup
  {JsonFile([k \in 1..Len(s) |-> Rec(s[k], "prior")]) :
     s \in {t \in SeqsUpTo(1..NumIds, MaxPrior) : IsAscending(t)}}

\* the short input lists: every list (repeats included)
ShortLists == SeqsUpTo(1..NumIds, MaxList)

\* the long input list: 1, 2, ..., MaxLong
LongList == [k \in 1..MaxLong |-> k]

\* line 1715, a bug variant: nothing is filtered out
RemainingUnfiltered(list, completed) == list

\* line 1715: remaining_patents
remaining_of(list, completed) == SelectNotIn(list, completed)

\* save_results_realtime, a bug variant: the JSON file is left as it was
SaveSkipped(rs, s) == output_file

\* save_results_realtime(results, output_file): the JSON file it leaves;
\* s tells whether writing the JSON or, after it, the CSV raises
save_results_realtime(rs, s) ==
  IF s = "json_error" THEN CorruptFile ELSE JsonFile(rs)

\* the arguments and the files a run starts from: a short list with any
\* prior output and any flags, or the long list in the traditional mode
\* (skip_search = FALSE), where not-found streaks build up.  The durations
\* measured only steer the run when the search is made.
InitBatch ==
  /\ \/ /\ patent_list \in ShortLists
        /\ output_file \in PriorFiles
        /\ skip_search \in BOOLEAN
        /\ skip_unavailable \in BOOLEAN
        /\ stage_duration \in IF skip_search THEN {4} ELSE StageDurations
     \/ /\ patent_list = LongList
        /\ output_file = AbsentFile
        /\ skip_search \in BOOLEAN
        /\ skip_unavailable \in BOOLEAN
        /\ stage_duration = 4
  /\ failed_file = AbsentFile
  /\ unavailable_file = AbsentFile
  /\ completed_patents = {}
  /\ existing_results = <<>>
  /\ remaining_patents = <<>>
  /\ results = <<>>
  /\ failed_patents = <<>>
  /\ unavailable_patents = <<>>
  /\ consecutive_failures = 0
  /\ consecutive_not_found = 0
  /\ i = 0
  /\ pc = "start"
  /\ returned = <<>>
  /\ attempted = <<>>
  /\ produced = <<>>
  /\ prior_output = output_file

\* lines 1701-1721: read the finished records, filter the input list
BatchLoad ==
  /\ pc = "start"
  /\ LET loaded == output_file.state = "json"
         existing == IF loaded THEN output_file.records ELSE <<>>
         completed == {existing[k].patent_no : k \in 1..Len(existing)}
         remaining == remaining_of(patent_list, completed)
     IN /\ existing_results' = existing
        /\ completed_patents' = completed
        /\ remaining_patents' = remaining
        /\ IF remaining = <<>>
           THEN /\ pc' = "done"
                /\ returned' = <<>>
                /\ UNCHANGED results
           ELSE /\ pc' = "login"
                /\ results' = existing
                /\ UNCHANGED returned
  /\ UNCHANGED <<auxVars, pureVars, batchArgs, output_file,
                 failed_file, unavailable_file, failed_patents,
                 unavailable_patents, consecutive_failures,
                 consecutive_not_found, i, attempted, produced,
                 govVars, tplVars>>

\* lines 1732-1737: create_driver and login
BatchLogin ==
  /\ pc = "login"
  /\ \E outcome \in {"ok", "login_failed", "exception"} :
       CASE outcome = "ok" ->
              /\ pc' = "iter" /\ i' = 1 /\ UNCHANGED returned
         [] outcome = "login_failed" ->
              /\ pc' = "done" /\ returned' = <<>> /\ UNCHANGED i
         [] OTHER ->
              /\ pc' = "done" /\ returned' = results /\ UNCHANGED i
  /\ UNCHANGED <<auxVars, pureVars, batchArgs, output_file,
                 failed_file, unavailable_file, completed_patents,
                 existing_results, remaining_patents, results,
                 failed_patents, unavailable_patents, consecutive_failures,
                 consecutive_not_found, attempted, produced,
                 govVars, tplVars>>

\* line 1744, a bug variant: the skip waits for a sixth not-found result
SkipsAtSix == skip_unavailable /\ consecutive_not_found >= 6

\* line 1744
SkipsAsUnavailable == skip_unavailable /\ consecutive_not_found >= 5

\* line 1750 (continue): the loop moves to the next identifier, or leaves
\* the loop
NextPosition ==
  /\ i' = i + 1
  /\ pc' = IF i + 1 > Len(remaining_patents) THEN "finish" ELSE "iter"

\* lines 1794-1832: a turn that processed its identifier ends; after every
\* 20th turn that is not the last the session is refreshed first
TurnEnds ==
  /\ i' = i + 1
  /\ pc' = IF i + 1 > Len(remaining_patents) THEN "finish"
           ELSE IF i % refresh_every = 0 THEN "refresh"
           ELSE "iter"

\* how the session refresh of lines 1809-1832 can go: no login button is
\* found (or looking for it or the login raises: the bare except of line
\* 1828), the login button is found and login succeeds or fails, or
\* closing the windows or loading the home page raises (line 1831)
RefreshOutcomes == {"valid", "relogin_ok", "relogin_failed", "exception"}

\* lines 1826-1832, a bug variant: a failed login ends the loop
AfterRefreshFatal(outcome) ==
  IF outcome = "relogin_failed" THEN "finish" ELSE "iter"

\* lines 1826-1832: where the loop goes after the refresh; a failed login
\* is only reported (line 1827)
AfterRefresh(outcome) == "iter"

\* lines 1806-1832: the periodic session refresh
BatchRefresh ==
  /\ pc = "refresh"
  /\ \E outcome \in RefreshOutcomes :
       /\ last_refresh' = outcome
       /\ pc' = AfterRefresh(outcome)
  /\ UNCHANGED <<searchVars, windowVars, pdfVars, pureVars, batchArgs, output_file,
                 failed_file, unavailable_file, completed_patents,
                 existing_results, remaining_patents, results,
                 failed_patents, unavailable_patents, consecutive_failures,
                 consecutive_not_found, i, returned, attempted, produced,
                 govVars, tplVars>>

\* lines 1743-1750: mark the identifier unavailable and continue
BatchSkipUnavailable ==
  /\ pc = "iter"
  /\ SkipsAsUnavailable
  /\ unavailable_patents' = Append(unavailable_patents, remaining_patents[i])
  /\ consecutive_not_found' = 0
  /\ NextPosition
  /\ UNCHANGED <<auxVars, pureVars, batchArgs, output_file,
                 failed_file, unavailable_file, completed_patents,
                 existing_results, remaining_patents, results,
                 failed_patents, consecutive_failures, returned, attempted,
                 produced, govVars, tplVars>>

\* line 1753, a bug variant: the restart waits for a fourth failure
NeedsRestartAtFour == consecutive_failures >= 4

\* line 1753
NeedsRestart == consecutive_failures >= 3

\* lines 1752-1767: restart the browser after three failures in a row
BatchRestart ==
  /\ pc = "iter"
  /\ ~SkipsAsUnavailable
  /\ NeedsRestart
  /\ \E outcome \in {"ok", "login_failed", "exception"} :
       CASE outcome = "ok" ->
              /\ consecutive_failures' = 0
              /\ pc' = "process"
              /\ UNCHANGED returned
         [] outcome = "login_failed" ->
              /\ pc' = "finish"
              /\ UNCHANGED <<consecutive_failures, returned>>
         [] OTHER ->
              /\ pc' = "done"
              /\ returned' = results
              /\ UNCHANGED consecutive_failures
  /\ UNCHANGED <<auxVars, pureVars, batchArgs, output_file,
                 failed_file, unavailable_file, completed_patents,
                 existing_results, remaining_patents, results,
                 failed_patents, unavailable_patents, consecutive_not_found,
                 i, attempted, produced, govVars, tplVars>>

\* how process_single_patent_realtime can end (where it stops)
SingleOutcomes ==
  IF skip_search
  THEN {"pnk_none", "pnk_exception", "fetch_none", "print_exception", "ok"}
  ELSE {"search_failed", "search_exception", "token_none", "token_exception",
        "fetch_none", "print_exception", "ok"}

\* what search_patent_with_guards can leave in last_search_used_fallback
\* when the call ends as o
FallbackFlags(o) ==
  IF skip_search \/ o \in {"search_failed", "search_exception"}
  THEN {FALSE} ELSE BOOLEAN

\* how save_results_realtime can end after the call ended as o (it is only
\* called for a record)
SaveOutcomes(o) ==
  IF o = "ok" THEN {"ok", "json_error", "csv_error"} ELSE {"ok"}

\* process_single_patent_realtime(driver, p, skip_search) ending as o; the
\* duration measured for each stage is stage_duration, fb is what
\* search_patent_with_guards
\* leaves in last_search_used_fallback when it returns true.  Gives the
\* governor fields after the call and whether a record is returned.
process_single_patent_realtime(o, fb) ==
  LET search_ok == ~skip_search /\ o \notin {"search_failed", "search_exception"}
      token_ok == o \in {"fetch_none", "print_exception", "ok"}
      fetch_ok == o \in {"print_exception", "ok"}
      d == stage_duration
      s1 == IF search_ok THEN record_stage_time(speed_stats, "search", d)
            ELSE speed_stats
      s2 == IF token_ok THEN record_stage_time(s1, "token", d) ELSE s1
      s3 == IF fetch_ok THEN record_stage_time(s2, "fetch", d) ELSE s2
      lsuf == IF skip_search THEN last_search_used_fallback
              ELSE IF search_ok THEN fb ELSE FALSE
      prof == update_performance_profile(performance_mode, success_streak,
                                         s3, o = "ok", lsuf)
  IN [stats |-> s3,
      lsuf |-> lsuf,
      updates |-> ~skip_search,
      success |-> (o = "ok"),
      mode |-> IF skip_search THEN performance_mode ELSE prof.mode,
      streak |-> IF skip_search THEN success_streak ELSE prof.streak,
      search_success_count |-> IF search_ok THEN search_success_count + 1
                               ELSE search_success_count,
      search_fail_count |-> IF ~skip_search /\ o = "search_failed"
                            THEN search_fail_count + 1
                            ELSE search_fail_count]

\* line 1782, a bug variant: every failure counts as a search failure
AnyFailureIsNotFound(count, failed) == TRUE

\* line 1782: self.search_fail_count > len(failed_patents), evaluated
\* before the failed identifier is appended
IsSearchFailure(count, failed) == count > Len(failed)

\* line 1773, a bug variant: the new record is put in front
PrependRecord(rs, r) == <<r>> \o rs

\* line 1773, a bug variant: the record is not kept
DropRecord(rs, r) == rs

\* line 1773: results.append(patent_data)
AppendRecord(rs, r) == Append(rs, r)

\* lines 1769-1847: one identifier is processed; on success the record is
\* appended and everything is saved, on failure the identifier is counted
BatchProcess ==
  /\ \/ pc = "iter" /\ ~SkipsAsUnavailable /\ ~NeedsRestart
     \/ pc = "process"
  /\ \E o \in SingleOutcomes :
     \E fb \in FallbackFlags(o), s \in SaveOutcomes(o) :
       LET p == remaining_patents[i]
           g == process_single_patent_realtime(o, fb)
       IN
       /\ attempted' = Append(attempted, p)
       /\ speed_stats' = g.stats
       /\ last_search_used_fallback' = g.lsuf
       /\ performance_mode' = g.mode
       /\ success_streak' = g.streak
       /\ search_success_count' = g.search_success_count
       /\ search_fail_count' = g.search_fail_count
       /\ IF g.updates THEN GovHistory(g.success, g.lsuf, g.mode)
          ELSE UNCHANGED <<gov_call, normal_run>>
       /\ IF g.success
          THEN /\ results' = AppendRecord(results, Rec(p, "fetched"))
               /\ produced' = Append(produced, Rec(p, "fetched"))
               /\ consecutive_failures' = 0
               /\ consecutive_not_found' = 0
               /\ output_file' = save_results_realtime(results', s)
               /\ UNCHANGED failed_patents
               /\ IF s = "ok"
                  THEN TurnEnds /\ UNCHANGED returned
                  ELSE /\ pc' = "done"
                       /\ returned' = results'
                       /\ UNCHANGED i
          ELSE /\ consecutive_not_found' =
                    IF IsSearchFailure(g.search_fail_count, failed_patents)
                    THEN consecutive_not_found + 1 ELSE 0
               /\ consecutive_failures' = consecutive_failures + 1
               /\ failed_patents' = Append(failed_patents, p)
               /\ TurnEnds
               /\ UNCHANGED <<results, produced, output_file, returned>>
  /\ UNCHANGED <<auxVars, pureVars, batchArgs, failed_file,
                 unavailable_file, completed_patents, existing_results,
                 remaining_patents, unavailable_patents, tplVars>>

\* lines 1849-1891: the sidecar files are written when their lists are not
\* empty, and the results are returned
BatchFinish ==
  /\ pc = "finish"
  /\ \E outcome \in {"ok", "failed_file_error", "unavailable_file_error"} :
       /\ outcome = "failed_file_error" => failed_patents # <<>>
       /\ outcome = "unavailable_file_error" => unavailable_patents # <<>>
       /\ failed_file' =
            IF failed_patents = <<>> THEN failed_file
            ELSE IF outcome = "failed_file_error" THEN CorruptFile
            ELSE JsonFile(failed_patents)
       /\ unavailable_file' =
            IF unavailable_patents = <<>> \/ outcome = "failed_file_error"
            THEN unavailable_file
            ELSE IF outcome = "unavailable_file_error" THEN CorruptFile
            ELSE JsonFile(unavailable_patents)
  /\ pc' = "done"
  /\ returned' = results
  /\ UNCHANGED <<auxVars, pureVars, batchArgs, output_file,
                 completed_patents, existing_results, remaining_patents,
                 results, failed_patents, unavailable_patents,
                 consecutive_failures, consecutive_not_found, i, attempted,
                 produced, govVars, tplVars>>

(***************************************************************************)
(* ResponseDecoder: _iter_decoded_variants.  A string is a sequence of     *)
(* characters.                                                             *)
(***************************************************************************)
MaxStr == 5          \* longest input string of _iter_decoded_variants

\* the characters of the input strings
InputChars == {"%", "2", "5", "B", "+"}

\* the hexadecimal digits among the characters of the modelled strings
HexDigits == {"2", "3", "5", "6", "B", "D"}

\* the character of a percent escape %h1h2: an ASCII byte is its character,
\* a byte from 0x80 up is not valid UTF-8 on its own and decodes to U+FFFD
\* (urllib.parse.unquote, errors='replace')
EscapedChar(h1, h2) ==
  CASE h1 = "2" /\ h2 = "2" -> "dquote"
    [] h1 = "2" /\ h2 = "3" -> "#"
    [] h1 = "2" /\ h2 = "5" -> "%"
    [] h1 = "2" /\ h2 = "6" -> "&"
    [] h1 = "2" /\ h2 = "B" -> "+"
    [] h1 = "2" /\ h2 = "D" -> "-"
    [] h1 = "3" /\ h2 = "2" -> "2"
    [] h1 = "3" /\ h2 = "3" -> "3"
    [] h1 = "3" /\ h2 = "5" -> "5"
    [] h1 = "3" /\ h2 = "6" -> "6"
    [] h1 = "3" /\ h2 = "B" -> ";"
    [] h1 = "3" /\ h2 = "D" -> "="
    [] h1 = "5" /\ h2 = "2" -> "R"
    [] h1 = "5" /\ h2 = "3" -> "S"
    [] h1 = "5" /\ h2 = "5" -> "U"
    [] h1 = "5" /\ h2 = "6" -> "V"
    [] h1 = "5" /\ h2 = "B" -> "["
    [] h1 = "5" /\ h2 = "D" -> "]"
    [] h1 = "6" /\ h2 = "2" -> "b"
    [] h1 = "6" /\ h2 = "3" -> "c"
    [] h1 = "6" /\ h2 = "5" -> "e"
    [] h1 = "6" /\ h2 = "6" -> "f"
    [] h1 = "6" /\ h2 = "B" -> "k"
    [] h1 = "6" /\ h2 = "D" -> "m"
    [] OTHER -> "U+FFFD"

\* urllib.parse.unquote: every %XX with two hexadecimal digits is replaced,
\* left to right, once; any other % stays
RECURSIVE unquote(_)
unquote(str) ==
  IF str = <<>> THEN <<>>
  ELSE IF /\ Head(str) = "%" /\ Len(str) >= 3
          /\ str[2] \in HexDigits /\ str[3] \in HexDigits
       THEN <<EscapedChar(str[2], str[3])>> \o unquote(SubSeq(str, 4, Len(str)))
       ELSE <<Head(str)>> \o unquote(Tail(str))

\* urllib.parse.unquote_plus: '+' becomes a space, then unquote
unquote_plus(str) ==
  unquote([k \in 1..Len(str) |-> IF str[k] = "+" THEN " " ELSE str[k]])

\* line 117, a bug variant: the visited set is not consulted
NeverSeen(current, visited) == FALSE

\* line 117: `if current in seen`
AlreadySeen(current, visited) == current \in visited

\* lines 123-124 and 129-130: a decoding is queued when it is new
Queued(decoded, current, visited) ==
  IF decoded \notin visited /\ decoded # current THEN <<decoded>> ELSE <<>>

\* _iter_decoded_variants as a function: the list the loop returns, from a
\* queue, the seen set and the variants so far
RECURSIVE DecodedFrom(_, _, _)
DecodedFrom(q, visited, acc) ==
  IF q = <<>> THEN acc
  ELSE LET current == Head(q) IN
       IF AlreadySeen(current, visited)
       THEN DecodedFrom(Tail(q), visited, acc)
       ELSE LET v == visited \cup {current}
                q1 == Tail(q) \o Queued(unquote(current), current, v)
                q2 == q1 \o Queued(unquote_plus(current), current, v)
            IN DecodedFrom(q2, v, Append(acc, current))

iter_decoded_variants(str) ==
  IF str = <<>> THEN <<>> ELSE DecodedFrom(<<str>>, {}, <<>>)

InputStrings == SeqsUpTo(InputChars, MaxStr)

IdleDecoder ==
  /\ value = <<>>
  /\ queue = <<>>
  /\ seen = {}
  /\ variants = <<>>
  /\ dec_pc = "idle"

\* _iter_decoded_variants(value) is called with a string
InitDecoder ==
  /\ value \in InputStrings
  /\ queue = <<>>
  /\ seen = {}
  /\ variants = <<>>
  /\ dec_pc = "call"

\* lines 110-114: an empty value returns [], else the queue starts with it
DecEnter ==
  /\ dec_pc = "call"
  /\ IF value = <<>>
     THEN dec_pc' = "done" /\ queue' = <<>>
     ELSE dec_pc' = "loop" /\ queue' = <<value>>
  /\ UNCHANGED <<value, seen, variants>>
  /\ UNCHANGED <<auxVars, govVars, tplVars, batchVars, parseVars, fetchVars>>

\* lines 115-132: one turn of `while queue`
DecTurn ==
  /\ dec_pc = "loop"
  /\ queue # <<>>
  /\ LET current == Head(queue)
         rest == Tail(queue)
     IN IF AlreadySeen(current, seen)
        THEN /\ queue' = rest
             /\ UNCHANGED <<seen, variants>>
        ELSE LET visited == seen \cup {current}
                 q1 == rest \o Queued(unquote(current), current, visited)
                 q2 == q1 \o Queued(unquote_plus(current), current, visited)
             IN /\ seen' = visited
                /\ variants' = Append(variants, current)
                /\ queue' = q2
  /\ UNCHANGED <<value, dec_pc>>
  /\ UNCHANGED <<auxVars, govVars, tplVars, batchVars, parseVars, fetchVars>>

\* line 133: the queue is empty, the variants are returned
DecReturn ==
  /\ dec_pc = "loop"
  /\ queue = <<>>
  /\ dec_pc' = "done"
  /\ UNCHANGED <<value, queue, seen, variants>>
  /\ UNCHANGED <<auxVars, govVars, tplVars, batchVars, parseVars, fetchVars>>

(***************************************************************************)
(* ResponseDecoder: _extract_tokens_from_query_string.  In a text the      *)
(* words pnk, oid, folderFlag, folderflag and the values are single        *)
(* characters of the sequence; separators and escapes are spelt out.       *)
(***************************************************************************)
TokenKeys == {"pnk", "folderFlag", "oid"}

\* a token set, or None (found = FALSE); a value that is not there is <<>>
NoTokens == [found |-> FALSE, pnk |-> <<>>, folderFlag |-> <<>>,
             oid |-> <<>>, has_folderFlag |-> FALSE]

\* candidate.lower() contains the word w
LoweredHas(str, w) ==
  \E k \in 1..Len(str) :
    \/ str[k] = w
    \/ w = "pnk" /\ str[k] = "PNK"
    \/ w = "oid" /\ str[k] = "OID"

\* re.split(r'[?&#\s]', variant) and str.split: the pieces between separators
RECURSIVE SplitOn(_, _)
SplitOn(str, seps) ==
  IF \A k \in 1..Len(str) : str[k] \notin seps THEN <<str>>
  ELSE LET k == CHOOSE j \in 1..Len(str) :
                  str[j] \in seps /\ \A h \in 1..(j - 1) : str[h] \notin seps
       IN <<SubSeq(str, 1, k - 1)>> \o SplitOn(SubSeq(str, k + 1, Len(str)), seps)

\* `w= in part` for a word w
HasAssign(part, w) ==
  \E k \in 1..(Len(part) - 1) : part[k] = w /\ part[k + 1] = "="

\* line 590: the parts that are looked at; the folderFlag test is spelt in
\* lower case in the source
PartIsRead(part) ==
  HasAssign(part, "pnk") \/ HasAssign(part, "folderflag")
    \/ HasAssign(part, "oid")

\* lines 592-597: one `sub` of a part updates the pairs
PairsAfterSub(pairs, sub) ==
  IF \A k \in 1..Len(sub) : sub[k] # "=" THEN pairs
  ELSE LET e == CHOOSE j \in 1..Len(sub) :
                  sub[j] = "=" /\ \A h \in 1..(j - 1) : sub[h] # "="
           key == SubSeq(sub, 1, e - 1)
           val == SubSeq(sub, e + 1, Len(sub))
       IN IF Len(key) = 1 /\ key[1] \in TokenKeys /\ val # <<>>
          THEN [pairs EXCEPT ![key[1]] = val]
          ELSE pairs

RECURSIVE PairsAfterSubs(_, _)
PairsAfterSubs(pairs, subs) ==
  IF subs = <<>> THEN pairs
  ELSE PairsAfterSubs(PairsAfterSub(pairs, Head(subs)), Tail(subs))

\* lines 589-597: the parts of one variant, in order
RECURSIVE PairsAfterParts(_, _)
PairsAfterParts(pairs, parts) ==
  IF parts = <<>> THEN pairs
  ELSE PairsAfterParts(
         IF PartIsRead(Head(parts))
         THEN PairsAfterSubs(pairs, SplitOn(Head(parts), {"&"}))
         ELSE pairs,
         Tail(parts))

AllThree(pairs) == \A key \in TokenKeys : pairs[key] # <<>>

\* lines 588-599: the variants in order, until all three keys are there
RECURSIVE PairsAfterVariants(_, _)
PairsAfterVariants(pairs, vs) ==
  IF vs = <<>> THEN pairs
  ELSE LET p1 == PairsAfterParts(pairs,
                   SplitOn(Head(vs), {"?", "&", "#", " "}))
       IN IF AllThree(p1) THEN p1 ELSE PairsAfterVariants(p1, Tail(vs))

\* lines 604-616: _decode, at most three rounds of unquote
RECURSIVE DecodeRounds(_, _)
DecodeRounds(val, rounds) ==
  IF rounds = 0 \/ unquote(val) = val THEN val
  ELSE DecodeRounds(unquote(val), rounds - 1)

\* line 602: `{'pnk', 'folderFlag', 'oid'}.issubset(pairs.keys())`
PairsComplete(pairs) == AllThree(pairs)

\* _extract_tokens_from_query_string(candidate)
extract_tokens_from_query_string(candidate) ==
  IF candidate = <<>> THEN NoTokens
  ELSE IF ~LoweredHas(candidate, "pnk") \/ ~LoweredHas(candidate, "oid")
  THEN NoTokens
  ELSE LET pairs == PairsAfterVariants([key \in TokenKeys |-> <<>>],
                                       iter_decoded_variants(candidate))
       IN IF ~PairsComplete(pairs) THEN NoTokens
          ELSE [found |-> TRUE,
                pnk |-> DecodeRounds(pairs["pnk"], 3),
                oid |-> DecodeRounds(pairs["oid"], 3),
                folderFlag |-> <<>>, has_folderFlag |-> FALSE]

(***************************************************************************)
(* ResponseDecoder: JSON values.  A value is a record: an object (keys and *)
(* kids, in document order), an array (kids), a string (str), a string     *)
(* whose text is itself a JSON document (jstr, kids[1]) or a number.  A    *)
(* response text is a JSON document or a text that is not JSON (raw).      *)
(***************************************************************************)
Obj(ks, vs) == [kind |-> "obj", keys |-> ks, kids |-> vs, str |-> <<>>]
Arr(vs) == [kind |-> "arr", keys |-> <<>>, kids |-> vs, str |-> <<>>]
Str(t) == [kind |-> "str", keys |-> <<>>, kids |-> <<>>, str |-> t]
JStr(n) == [kind |-> "jstr", keys |-> <<>>, kids |-> <<n>>, str |-> <<>>]
Num == [kind |-> "num", keys |-> <<>>, kids |-> <<>>, str |-> <<>>]
Raw(t) == [kind |-> "raw", keys |-> <<>>, kids |-> <<>>, str |-> t]

RECURSIVE Flatten(_)
Flatten(ss) == IF ss = <<>> THEN <<>> ELSE Head(ss) \o Flatten(Tail(ss))

\* the characters of a JSON text written inside a JSON string: the quotes
\* are escaped
Escaped(chars) ==
  Flatten([k \in 1..Len(chars) |->
             IF chars[k] = "dquote" THEN <<"\\", "dquote">> ELSE <<chars[k]>>])

\* the text of a value (json.loads reads it back): the characters of the
\* compact form
RECURSIVE Serialize(_)
Serialize(n) ==
  CASE n.kind = "obj" ->
         <<"{">> \o Flatten([k \in 1..Len(n.kids) |->
                     (IF k > 1 THEN <<",">> ELSE <<>>)
                       \o <<"dquote", n.keys[k], "dquote", ":">>
                       \o Serialize(n.kids[k])]) \o <<"}">>
    [] n.kind = "arr" ->
         <<"[">> \o Flatten([k \in 1..Len(n.kids) |->
                     (IF k > 1 THEN <<",">> ELSE <<>>)
                       \o Serialize(n.kids[k])]) \o <<"]">>
    [] n.kind = "str" -> <<"dquote">> \o n.str \o <<"dquote">>
    [] n.kind = "jstr" ->
         <<"dquote">> \o Escaped(Serialize(n.kids[1])) \o <<"dquote">>
    [] n.kind = "num" -> <<"7">>
    [] OTHER -> n.str

\* unquote / unquote_plus of a text: the escapes are in its strings
RECURSIVE unquote_text(_)
unquote_text(n) ==
  [n EXCEPT !.str = unquote(@),
            !.kids = [k \in 1..Len(@) |-> unquote_text(@[k])]]

RECURSIVE unquote_plus_text(_)
unquote_plus_text(n) ==
  [n EXCEPT !.str = unquote_plus(@),
            !.kids = [k \in 1..Len(@) |-> unquote_plus_text(@[k])]]

\* _iter_decoded_variants on a text
RECURSIVE DecodedTextsFrom(_, _, _)
DecodedTextsFrom(q, visited, acc) ==
  IF q = <<>> THEN acc
  ELSE LET current == Head(q) IN
       IF AlreadySeen(current, visited)
       THEN DecodedTextsFrom(Tail(q), visited, acc)
       ELSE LET v == visited \cup {current}
                q1 == Tail(q) \o Queued(unquote_text(current), current, v)
                q2 == q1 \o Queued(unquote_plus_text(current), current, v)
            IN DecodedTextsFrom(q2, v, Append(acc, current))

text_variants(t) ==
  IF Serialize(t) = <<>> THEN <<>> ELSE DecodedTextsFrom(<<t>>, {}, <<>>)

\* the value of a token key as a string
ValueOf(n) == IF n.kind = "str" THEN n.str ELSE Serialize(n)

KeyIndex(n, key) == CHOOSE k \in 1..Len(n.keys) : n.keys[k] = key

HasKey(n, key) == \E k \in 1..Len(n.keys) : n.keys[k] = key

\* line 556: `{'pnk', 'folderFlag', 'oid'}.issubset(payload.keys())`
ExposesTokens(n) == \A key \in TokenKeys : HasKey(n, key)

TokensOfObject(n) ==
  [found |-> TRUE,
   pnk |-> IF HasKey(n, "pnk") THEN ValueOf(n.kids[KeyIndex(n, "pnk")])
           ELSE <<>>,
   folderFlag |-> IF HasKey(n, "folderFlag")
                  THEN ValueOf(n.kids[KeyIndex(n, "folderFlag")]) ELSE <<>>,
   oid |-> IF HasKey(n, "oid") THEN ValueOf(n.kids[KeyIndex(n, "oid")])
           ELSE <<>>,
   has_folderFlag |-> TRUE]

\* _extract_tokens_from_json(payload): depth first, the first hit
RECURSIVE extract_tokens_from_json(_)
RECURSIVE FirstInKids(_)
extract_tokens_from_json(n) ==
  CASE n.kind = "obj" ->
         IF ExposesTokens(n) THEN TokensOfObject(n) ELSE FirstInKids(n.kids)
    [] n.kind = "arr" -> FirstInKids(n.kids)
    [] n.kind = "jstr" -> extract_tokens_from_json(n.kids[1])
    [] OTHER -> NoTokens

FirstInKids(kids) ==
  IF kids = <<>> THEN NoTokens
  ELSE LET r == extract_tokens_from_json(Head(kids)) IN
       IF r.found THEN r ELSE FirstInKids(Tail(kids))

(***************************************************************************)
(* ResponseDecoder: _parse_search_response_for_tokens                      *)
(***************************************************************************)
MaxPairs == 3        \* most key=value pairs in a query-string text

IsJson(t) == t.kind # "raw"

\* line 509: the variants stage 1 hands to json.loads
TriedAsJson(t, ctype) ==
  ctype = "json" \/ (t.kind \in {"obj", "arr"})

\* lines 508-516: the first variant whose JSON tree gives a token set
RECURSIVE Stage1(_, _)
Stage1(cands, ctype) ==
  IF cands = <<>> THEN NoTokens
  ELSE LET c == Head(cands)
           r == IF TriedAsJson(c, ctype) /\ IsJson(c)
                THEN extract_tokens_from_json(c) ELSE NoTokens
       IN IF r.found THEN r ELSE Stage1(Tail(cands), ctype)

\* the first text of a list that gives a token set as a query string
RECURSIVE FirstQueryString(_)
FirstQueryString(strs) ==
  IF strs = <<>> THEN NoTokens
  ELSE LET r == extract_tokens_from_query_string(Head(strs)) IN
       IF r.found THEN r ELSE FirstQueryString(Tail(strs))

\* the text of a string value
StringText(n) ==
  IF n.kind = "jstr" THEN Serialize(n.kids[1]) ELSE n.str

\* lines 522-532: the string fields body, data, params, postData of an
\* object, in this order, each in all its decoded variants
RECURSIVE FieldsStage(_, _)
FieldsStage(n, names) ==
  IF names = <<>> THEN NoTokens
  ELSE LET r == IF HasKey(n, Head(names))
                   /\ n.kids[KeyIndex(n, Head(names))].kind \in {"str", "jstr"}
                THEN FirstQueryString(iter_decoded_variants(
                       StringText(n.kids[KeyIndex(n, Head(names))])))
                ELSE NoTokens
       IN IF r.found THEN r ELSE FieldsStage(n, Tail(names))

\* lines 519-534
RECURSIVE Stage2(_)
Stage2(cands) ==
  IF cands = <<>> THEN NoTokens
  ELSE LET c == Head(cands)
           r == IF c.kind = "obj"
                THEN FieldsStage(c, <<"body", "data", "params", "postData">>)
                ELSE NoTokens
       IN IF r.found THEN r ELSE Stage2(Tail(cands))

\* lines 537-540
Stage3(cands) ==
  FirstQueryString([k \in 1..Len(cands) |-> Serialize(cands[k])])

\* line 544: the value the pattern captures from position k on, where a
\* quoted token key, a colon or equals sign and an opening quote stand
RECURSIVE RunUntilQuote(_, _)
RunUntilQuote(chars, k) ==
  IF k > Len(chars) \/ chars[k] \in {"dquote", "quote"} THEN <<>>
  ELSE <<chars[k]>> \o RunUntilQuote(chars, k + 1)

MatchAt(chars, k) ==
  /\ k + 5 <= Len(chars)
  /\ chars[k] \in {"dquote", "quote"}
  /\ chars[k + 1] \in TokenKeys
  /\ chars[k + 2] \in {"dquote", "quote"}
  /\ chars[k + 3] \in {":", "="}
  /\ chars[k + 4] \in {"dquote", "quote"}
  /\ chars[k + 5] \notin {"dquote", "quote"}

\* lines 545-547: pattern.findall and the dict built from it (the last
\* match of a key stays)
RegexMap(chars) ==
  [key \in TokenKeys |->
     LET hits == {k \in 1..Len(chars) : MatchAt(chars, k) /\ chars[k + 1] = key}
     IN IF hits = {} THEN <<>>
        ELSE RunUntilQuote(chars, 5 + CHOOSE k \in hits : \A h \in hits : h <= k)]

\* lines 543-549
RECURSIVE Stage4(_)
Stage4(cands) ==
  IF cands = <<>> THEN NoTokens
  ELSE LET m == RegexMap(Serialize(Head(cands))) IN
       IF AllThree(m)
       THEN [found |-> TRUE, pnk |-> m["pnk"], folderFlag |-> m["folderFlag"],
             oid |-> m["oid"], has_folderFlag |-> TRUE]
       ELSE Stage4(Tail(cands))

\* _parse_search_response_for_tokens(text, content_type)
parse_search_response_for_tokens(t, ctype) ==
  IF Serialize(t) = <<>> THEN NoTokens
  ELSE LET cands == text_variants(t)
           r1 == Stage1(cands, ctype)
           r2 == Stage2(cands)
           r3 == Stage3(cands)
       IN IF r1.found THEN r1
          ELSE IF r2.found THEN r2
          ELSE IF r3.found THEN r3
          ELSE Stage4(Append(cands, t))

\* ---- the response texts handed to the parser
\* key=value with the value that goes with the key; the equals sign may be
\* percent-encoded
PairTexts ==
  {<<kv[1]>> \o eq \o <<kv[2]>> :
     kv \in {<<"pnk", "ABC">>, <<"oid", "123">>, <<"folderFlag", "X">>},
     eq \in {<<"=">>, <<"%", "3", "D">>}}

\* query strings of n pairs; a separator may be percent-encoded
RECURSIVE QueryStrings(_)
QueryStrings(n) ==
  IF n = 1 THEN PairTexts
  ELSE {q \o sep \o pr : q \in QueryStrings(n - 1),
                         sep \in {<<"&">>, <<"%", "2", "6">>},
                         pr \in PairTexts}

QueryTexts == UNION {QueryStrings(n) : n \in 1..MaxPairs}

\* objects that hold some of the token keys, their values tagged
TokenObjects ==
  {Obj(ks, [k \in 1..Len(ks) |-> Str(<<ks[k], tag>>)]) :
     ks \in {<<"pnk">>, <<"pnk", "oid">>, <<"pnk", "folderFlag", "oid">>,
             <<"folderFlag", "oid">>},
     tag \in {"1", "2"}}

JsonDocs ==
  TokenObjects
    \cup {Obj(<<"data">>, <<Str(q)>>) : q \in QueryTexts}
    \cup {Obj(<<"result">>, <<n>>) : n \in TokenObjects}
    \cup {Obj(<<"total", "data">>, <<Num, JStr(n)>>) : n \in TokenObjects}
    \cup {JStr(n) : n \in TokenObjects}
    \cup {Arr(<<a, b>>) : a, b \in TokenObjects}
    \cup {Obj(<<"a", "b">>, <<a, b>>) : a, b \in TokenObjects}

ResponseTexts == JsonDocs \cup {Raw(q) : q \in QueryTexts} \cup {Raw(<<>>)}

IdleParse ==
  /\ text = Raw(<<>>)
  /\ content_type = "other"
  /\ tokens = NoTokens
  /\ parse_pc = "idle"

InitParse ==
  /\ text \in ResponseTexts
  /\ content_type \in {"json", "other"}
  /\ tokens = NoTokens
  /\ parse_pc = "call"

\* one call of _parse_search_response_for_tokens(text, content_type)
ParseResponse ==
  /\ parse_pc = "call"
  /\ tokens' = parse_search_response_for_tokens(text, content_type)
  /\ parse_pc' = "done"
  /\ UNCHANGED <<text, content_type>>
  /\ UNCHANGED <<auxVars, govVars, tplVars, batchVars, decVars, fetchVars>>

\* one call of _extract_tokens_from_query_string(candidate) on a text that
\* is not JSON
ExtractQueryString ==
  /\ parse_pc = "call"
  /\ text.kind = "raw"
  /\ tokens' = extract_tokens_from_query_string(text.str)
  /\ parse_pc' = "extracted"
  /\ UNCHANGED <<text, content_type>>
  /\ UNCHANGED <<auxVars, govVars, tplVars, batchVars, decVars, fetchVars>>

(***************************************************************************)
(* RecordFetcher: fetch_details_immediately and                            *)
(* parse_patent_json_for_details.  A value of a payload or of a record is  *)
(* "" (empty string), "null" (None), "absent" (no such key) or a tag that  *)
(* stands for a text.                                                      *)
(***************************************************************************)
RecordKeys == {"patent_no", "patent_type", "application_date",
               "application_number", "inventors", "first_applicant",
               "abstract", "examiner", "first_claim"}

\* None, as the result of the fetch.  A result holds the record, each value
\* by its kind ("" empty, "text", "null"), and beside it the characters of
\* the record's first_applicant
NoRecord == [returned |-> FALSE, record |-> [key \in RecordKeys |-> "absent"],
             first_applicant |-> <<>>]

\* what a POST gives: requests raises, a status code other than 200, a body
\* that is not JSON, a JSON body whose status is falsy, or a JSON body whose
\* status is truthy
ResponseKinds == {"raises", "not_200", "bad_json", "status_false", "ok"}

NoResponse == [kind |-> "none", data |-> "absent", pt |-> "absent",
               an |-> "absent", fields |-> <<>>]

\* getPatentCommonInfo: data is absent, null or an object with pt and an
CommonResponses ==
  {[NoResponse EXCEPT !.kind = k] : k \in ResponseKinds \ {"ok"}}
    \cup {[NoResponse EXCEPT !.kind = "ok", !.data = d] : d \in {"absent", "null"}}
    \cup {[NoResponse EXCEPT !.kind = "ok", !.data = "dict", !.pt = pt, !.an = an] :
            pt \in {"1", "2", "absent"}, an \in {"CN123", "123", "null"}}

MaxName == 2         \* longest applicant name, in characters

\* the characters of applicant names: "kw" stands for an organisation
\* keyword of line 815-828 (such as the word for company), "X" for an
\* upper-case and "y" for a lower-case letter that form no keyword, "sony"
\* for that word, one of known_companies
NameChars == {"kw", "X", "y", "-", "7", " ", "sony"}

\* the characters that the regular expressions count as word characters
WordChars == {"kw", "X", "y", "7", "sony"}

\* str.strip(): white space taken off both ends
RECURSIVE strip(_)
strip(name) ==
  IF name = <<>> THEN name
  ELSE IF Head(name) = " " THEN strip(Tail(name))
  ELSE IF name[Len(name)] = " " THEN strip(SubSeq(name, 1, Len(name) - 1))
  ELSE name

\* line 835: re.search(r'\b[A-Z]{2,}\b', applicant_name)
HasUpperWord(name) ==
  \E a, b \in 1..Len(name) :
    /\ b > a
    /\ \A k \in a..b : name[k] = "X"
    /\ a = 1 \/ name[a - 1] \notin WordChars
    /\ b = Len(name) \/ name[b + 1] \notin WordChars

\* is_organization, a bug variant: every non-empty name is accepted
AcceptsAnyName(applicant_name) == applicant_name # <<>>

\* lines 810-855: is_organization(applicant_name)
is_organization(applicant_name) ==
  LET clean_name == strip(applicant_name)
  IN /\ applicant_name # <<>>
     /\ \/ \E k \in 1..Len(applicant_name) : applicant_name[k] = "kw"
        \/ HasUpperWord(applicant_name)
        \/ \E k \in 1..Len(applicant_name) : applicant_name[k] = "-"
        \/ clean_name # <<>> /\ clean_name[Len(clean_name)] = "7"
        \/ /\ clean_name # <<>>
           /\ \A k \in 1..Len(clean_name) : clean_name[k] = "X"
           /\ 3 <= Len(clean_name) /\ Len(clean_name) <= 12
        \/ clean_name = <<"sony">>

\* bibliographicItems.apRoot: absent, not a list, or a list of names
AbsentAp == [kind |-> "absent", names |-> <<>>]
ListAp(names) == [kind |-> "list", names |-> names]

ApplicantNames == SeqsUpTo(NameChars, MaxName)

\* the applicant lists: none, one name, or a name followed by a company
ApRoots ==
  {AbsentAp, [AbsentAp EXCEPT !.kind = "not_list"], ListAp(<<>>)}
    \cup {ListAp(<<n>>) : n \in ApplicantNames}
    \cup {ListAp(<<n, <<"y", "kw">>>>) : n \in ApplicantNames}

\* lines 886-892: the first applicant kept ("" when none is)
first_applicant_of(ap_root) ==
  IF ap_root.kind = "list" /\ ap_root.names # <<>>
       /\ is_organization(ap_root.names[1])
  THEN ap_root.names[1] ELSE <<>>

\* the fields of the baseInfo data that the parser reads:
\* <<axisSortMap, in_or, apRoot, ab_cn, first_claim_or, examiner, pdf>>
\*   axisSortMap: absent, null, with an application date, without one
\*   in_or: no bibliographicItems object, or in it absent, null or a text
\*   apRoot: one of ApRoots; every applicant list comes with the other
\*     fields at their simplest, and three lists (none, a company, a person)
\*     with every combination of the other fields
\*   ab_cn, first_claim_or: absent, null or a text
\*   examiner: otherBibliographicItems without or with an examiner entry
\*   pdf: what find_examiner_from_pdf_files finds ("" or a name)
BaseFields ==
  {<<ax, ior, ap, ab, fc, ex, pdf>> :
     ax \in {"absent", "null", "date", "no_date"},
     ior \in {"no_biblio", "absent", "null", "text"},
     ap \in {AbsentAp, ListAp(<<<<"y", "kw">>>>), ListAp(<<<<"y", "y">>>>)},
     ab \in {"absent", "null", "text"},
     fc \in {"absent", "null", "text"},
     ex \in {"absent", "text"},
     pdf \in {"", "text"}}
    \cup {<<"date", "text", ap, "text", "text", "text", "">> : ap \in ApRoots}

\* baseInfo: data is absent, null, an empty object, a list or an object
BaseResponses ==
  {[NoResponse EXCEPT !.kind = k] : k \in ResponseKinds \ {"ok"}}
    \cup {[NoResponse EXCEPT !.kind = "ok", !.data = d] :
            d \in {"absent", "null", "empty", "list"}}
    \cup {[NoResponse EXCEPT !.kind = "ok", !.data = "dict", !.fields = fs] :
            fs \in {f \in BaseFields : f[2] = "no_biblio" => f[3] = AbsentAp}}

\* dict.get(key, ''): the default is used only when the key is absent
GetOrEmpty(v) == IF v = "absent" THEN "" ELSE v

\* lines 751-752
PatentType(pt) ==
  CASE pt = "1" -> "invention_application"
    [] pt = "2" -> "utility_model"
    [] OTHER -> ""

\* parse_patent_json_for_details raises on these payloads: .items() of a
\* null axisSortMap (line 871), len() of a null ab_cn (899) or
\* first_claim_or (905)
ParserRaises(fs) == fs[1] = "null" \/ fs[4] = "null" \/ fs[5] = "null"

\* parse_patent_json_for_details(data, patent_no, patent_type,
\* application_number): the record of lines 924-934
parse_patent_json_for_details(fs, patent_type, application_number) ==
  LET listed == IF fs[6] = "text" THEN "text" ELSE ""
  IN [patent_no |-> "patent_no",
      patent_type |-> patent_type,
      application_date |-> IF fs[1] = "date" THEN "date" ELSE "",
      application_number |-> application_number,
      inventors |-> IF fs[2] = "no_biblio" THEN "" ELSE GetOrEmpty(fs[2]),
      first_applicant |-> IF first_applicant_of(fs[3]) # <<>> THEN "text"
                          ELSE "",
      abstract |-> GetOrEmpty(fs[4]),
      examiner |-> IF listed = "" /\ patent_type = "invention_application"
                   THEN fs[7] ELSE listed,
      first_claim |-> GetOrEmpty(fs[5])]

\* lines 737-744 and 761-768, a bug variant: the status flag is not read
CallAnswered(resp) == resp.kind \in {"ok", "status_false"}

\* lines 737-744 and 761-768: the call reported success
CallSucceeded(resp) == resp.kind = "ok"

IdleFetch ==
  /\ fetch_tokens = "pnk"
  /\ calls = <<>>
  /\ common_info = NoResponse
  /\ base_info = NoResponse
  /\ fetch_exc = FALSE
  /\ fetched = NoRecord
  /\ fetch_pc = "idle"

\* fetch_details_immediately(tokens, driver, patent_no) is called: tokens
\* holds a pnk, an empty pnk, no pnk key, or is None
InitFetch ==
  /\ fetch_tokens \in {"pnk", "empty_pnk", "no_pnk", "None"}
  /\ calls = <<>>
  /\ common_info = NoResponse
  /\ base_info = NoResponse
  /\ fetch_exc = FALSE
  /\ fetched = NoRecord
  /\ fetch_pc = "call"

\* lines 709-724: the pnk is read and the session is built from the
\* browser's cookies (driver.get_cookies may raise)
FetchEnter ==
  /\ fetch_pc = "call"
  /\ \E cookies_ok \in BOOLEAN :
       IF fetch_tokens = "pnk" /\ cookies_ok
       THEN fetch_pc' = "common" /\ fetch_exc' = FALSE
       ELSE /\ fetch_pc' = "done"
            /\ fetch_exc' = (fetch_tokens \in {"None", "pnk"})
  /\ UNCHANGED <<fetch_tokens, calls, common_info, base_info, fetched>>
  /\ UNCHANGED <<auxVars, govVars, tplVars, batchVars, decVars, parseVars>>

\* lines 732-754: getPatentCommonInfo
FetchCommonInfo ==
  /\ fetch_pc = "common"
  /\ \E resp \in CommonResponses :
       /\ common_info' = resp
       /\ calls' = Append(calls, "getPatentCommonInfo")
       /\ IF CallSucceeded(resp) /\ resp.data # "null"
          THEN fetch_pc' = "base" /\ fetch_exc' = FALSE
          ELSE /\ fetch_pc' = "done"
               /\ fetch_exc' = (resp.kind \in {"raises", "bad_json"}
                                  \/ (CallSucceeded(resp) /\ resp.data = "null"))
  /\ UNCHANGED <<fetch_tokens, base_info, fetched>>
  /\ UNCHANGED <<auxVars, govVars, tplVars, batchVars, decVars, parseVars>>

\* lines 756-799: baseInfo, then the parser
FetchBaseInfo ==
  /\ fetch_pc = "base"
  /\ \E resp \in BaseResponses :
       LET an_raises == common_info.an = "null"
           usable == CallSucceeded(resp) /\ resp.data = "dict"
           raises == \/ resp.kind \in {"raises", "bad_json"}
                     \/ usable /\ (an_raises \/ ParserRaises(resp.fields))
       IN
       /\ base_info' = resp
       /\ calls' = Append(calls, "baseInfo")
       /\ fetch_exc' = raises
       /\ fetched' =
            IF usable /\ ~raises
            THEN [returned |-> TRUE,
                  record |-> parse_patent_json_for_details(
                               resp.fields, PatentType(common_info.pt),
                               IF common_info.an = "absent" THEN "" ELSE "number"),
                  first_applicant |-> first_applicant_of(resp.fields[3])]
            ELSE NoRecord
  /\ fetch_pc' = "done"
  /\ UNCHANGED <<fetch_tokens, common_info>>
  /\ UNCHANGED <<auxVars, govVars, tplVars, batchVars, decVars, parseVars>>

(***************************************************************************)
(* Stage timing windows: _record_stage_time and _get_average_stage_time    *)
(* called in any order on windows that are nearly or just full.            *)
(***************************************************************************)
MaxRecord == 3       \* calls of _record_stage_time in SpecWindow

\* the stage names passed: those of speed_stats and one it does not hold
StageNames == Stages \cup {"login"}

NoRead == [stage |-> "none", value |-> NoAverage, log |-> <<>>]

\* what n calls of _record_stage_time leave in an empty window, for
\* n <= max_speed_samples: the durations measured, here 4 and 20 in turn
FilledWindow(n) == [k \in 1..n |-> IF k % 2 = 1 THEN 4 ELSE 20]

\* the windows are empty, one short of full, or just full, and every sample
\* recorded so far is still in its window
InitWindow ==
  /\ \E n \in [Stages -> {0, max_speed_samples - 1, max_speed_samples}] :
       /\ speed_stats = [stage \in Stages |-> FilledWindow(n[stage])]
       /\ stage_log = [stage \in StageNames |->
                         IF stage \in Stages THEN FilledWindow(n[stage])
                         ELSE <<>>]
  /\ records_made = 0
  /\ average_read = NoRead
  /\ search_success_count = 0
  /\ search_fail_count = 0
  /\ performance_mode = "fast"
  /\ success_streak = 0
  /\ last_search_used_fallback = FALSE
  /\ gov_call = NoGovCall
  /\ normal_run = 0

\* a call of _record_stage_time(stage, duration)
WinRecord ==
  /\ records_made < MaxRecord
  /\ \E stage \in StageNames, d \in StageDurations :
       /\ speed_stats' = record_stage_time(speed_stats, stage, d)
       /\ stage_log' = [stage_log EXCEPT ![stage] = Append(@, d)]
  /\ records_made' = records_made + 1
  /\ UNCHANGED <<average_read, performance_mode, success_streak,
                 last_search_used_fallback, search_success_count,
                 search_fail_count, gov_call, normal_run>>
  /\ UNCHANGED <<refreshVars, searchVars, pdfVars, tplVars, batchVars, pureVars>>

\* a call of _get_average_stage_time(stage)
WinAverage ==
  /\ \E stage \in StageNames :
       average_read' = [stage |-> stage,
                        value |-> get_average_stage_time(speed_stats, stage),
                        log |-> stage_log[stage]]
  /\ UNCHANGED <<stage_log, records_made>>
  /\ UNCHANGED <<refreshVars, searchVars, pdfVars, govVars, tplVars, batchVars, pureVars>>

(***************************************************************************)
(* SearchDriver: search_patent_with_guards and _adaptive_wait_timeout.     *)
(* Seconds are counted in tenths.                                          *)
(***************************************************************************)
MaxAttempt == 6      \* largest attempt number given to _adaptive_wait_timeout

\* line 1186: the default of max_attempts (the only caller, line 1544, does
\* not pass it)
max_attempts == 3

\* lines 55-58 and 89-90: _get_timeout_profile
timeout_profiles(mode) ==
  IF mode = "fast" THEN [base |-> 30, increment |-> 5, max |-> 60]
  ELSE [base |-> 40, increment |-> 10, max |-> 80]

\* `avg_search <= k` for avg_search = sum/len, compared without dividing
AverageAtMost(stats, stage, k) ==
  SumSeq(stats[stage]) <= k * Len(stats[stage])

\* `avg_search >= k`
AverageAtLeast(stats, stage, k) ==
  SumSeq(stats[stage]) >= k * Len(stats[stage])

\* line 1312: `avg_search and ...`: None (empty window) and 0 are falsy
AverageTruthy(stats, stage) ==
  stats[stage] # <<>> /\ SumSeq(stats[stage]) # 0

\* lines 1306-1316: the base that _adaptive_wait_timeout uses
adaptive_base(mode, stats) ==
  LET profile == timeout_profiles(mode)
  IN IF AverageTruthy(stats, "search") /\ mode = "fast"
     THEN IF AverageAtMost(stats, "search", 8)
          THEN Max(35, profile.base - 10)
          ELSE IF AverageAtLeast(stats, "search", 12)
          THEN Min(profile.base + 15, profile.max)
          ELSE profile.base
     ELSE profile.base

\* line 1318, a bug variant: the result is not capped by the profile's max
UncappedWaitTimeout(mode, stats, attempt) ==
  LET profile == timeout_profiles(mode)
  IN adaptive_base(mode, stats) + (attempt - 1) * profile.increment

\* lines 1304-1318: _adaptive_wait_timeout(attempt)
adaptive_wait_timeout(mode, stats, attempt) ==
  LET profile == timeout_profiles(mode)
  IN Min(profile.max, adaptive_base(mode, stats) + (attempt - 1) * profile.increment)

\* line 1190, a bug variant: fast mode keeps the full budget
SameAttemptsInFast(mode, most) == most

\* line 1190: effective_attempts
EffectiveAttempts(mode, most) ==
  IF mode # "fast" THEN most ELSE Max(2, most - 1)

\* one attempt, as kept in search_log: which tactic, the base and the wait
\* timeout computed for it (0 for the primary search, which takes none),
\* and whether it found the patent
Attempt(tag, b, w, found) ==
  [tag |-> tag, base |-> b, wait_timeout |-> w, found |-> found]

\* the performance log the primary search can leave: nothing, or a request
\* to the site that carries the patent number in its URL
SearchTraffic ==
  {<<>>} \cup {<<e>> : e \in {x \in LogEntries :
                                /\ x.method = "Network.requestWillBeSent"
                                /\ x.url_has_id /\ x.url_http
                                /\ x.host = "incopat" /\ x.post = ""}}

\* lines 1193 and 1201, a bug variant: no diagnostic capture is taken
ContextNotRecorded(captures, tag, after, html, screenshot) == captures

\* lines 1424-1441: _record_search_context(driver, patent_no, attempt_tag)
\* called when `after` attempts have been made; html and screenshot tell
\* whether the page source and the screenshot were saved (a failing save is
\* reported and the call returns normally)
record_search_context(captures, tag, after, html, screenshot) ==
  Append(captures, [tag |-> tag, after |-> after, html |-> html,
                    screenshot |-> screenshot])

\* line 1189, a bug variant: the flag of the previous search is kept
FlagKept(flag) == flag

\* line 1189: self.last_search_used_fallback = False
FlagAtEntry(flag) == FALSE

\* lines 1186-1190: search_patent_with_guards(driver, patent_no) is called
SearchEnter ==
  /\ search_pc = "idle"
  /\ search_pc' = "primary"
  /\ last_search_used_fallback' = FlagAtEntry(last_search_used_fallback)
  /\ search_log' = <<>>
  /\ search_result' = "none"
  /\ search_traffic' = <<>>
  /\ search_captures' = <<>>
  /\ UNCHANGED <<performance_mode, success_streak, speed_stats,
                 search_success_count, search_fail_count, gov_call,
                 normal_run>>
  /\ UNCHANGED <<refreshVars, windowVars, pdfVars, tplVars, batchVars, pureVars>>

\* lines 1191-1193 and 1205-1223: the primary search finds the patent (by
\* the accelerated DOM search, which then clears the flag at line 193, or by
\* the base class's search), does not find it, or raises; when it does not
\* find it the diagnostic capture tagged "primary" is taken
SearchPrimary ==
  /\ search_pc = "primary"
  /\ \E outcome \in {"found", "not_found", "raises"},
        traffic \in SearchTraffic, html \in BOOLEAN, screenshot \in BOOLEAN :
       /\ search_log' = Append(search_log, Attempt("primary", 0, 0, outcome = "found"))
       /\ search_traffic' = traffic
       /\ CASE outcome = "found" ->
                 /\ search_result' = "True" /\ search_pc' = "done"
                 /\ html /\ screenshot
                 /\ UNCHANGED search_captures
            [] outcome = "raises" ->
                 /\ search_result' = "raised" /\ search_pc' = "done"
                 /\ html /\ screenshot
                 /\ UNCHANGED search_captures
            [] OTHER ->
                 /\ search_captures' =
                      record_search_context(search_captures, "primary",
                                            Len(search_log'), html, screenshot)
                 /\ IF EffectiveAttempts(performance_mode, max_attempts) >= 2
                    THEN search_result' = "none" /\ search_pc' = "fallback"
                    ELSE search_result' = "False" /\ search_pc' = "done"
  /\ UNCHANGED <<refreshVars, windowVars, pdfVars, govVars, tplVars, batchVars, pureVars>>

\* lines 1194-1203: one turn of the fallback loop; a fallback search that
\* does not find the patent is followed by its diagnostic capture
SearchFallback ==
  /\ search_pc = "fallback"
  /\ \E found \in BOOLEAN, html \in BOOLEAN, screenshot \in BOOLEAN :
       LET attempt == Len(search_log) + 1
           b == adaptive_base(performance_mode, speed_stats)
           w == adaptive_wait_timeout(performance_mode, speed_stats, attempt)
       IN
       /\ search_log' = Append(search_log, Attempt("fallback", b, w, found))
       /\ IF found
          THEN /\ last_search_used_fallback' = TRUE
               /\ search_result' = "True"
               /\ search_pc' = "done"
               /\ html /\ screenshot
               /\ UNCHANGED search_captures
          ELSE /\ UNCHANGED last_search_used_fallback
               /\ search_captures' =
                    record_search_context(search_captures, "fallback",
                                          Len(search_log'), html, screenshot)
               /\ IF attempt + 1 > EffectiveAttempts(performance_mode, max_attempts)
                  THEN search_result' = "False" /\ search_pc' = "done"
                  ELSE search_result' = "none" /\ search_pc' = "fallback"
  /\ UNCHANGED <<performance_mode, success_streak, speed_stats,
                 search_success_count, search_fail_count, gov_call,
                 normal_run, search_traffic>>
  /\ UNCHANGED <<refreshVars, windowVars, pdfVars, tplVars, batchVars, pureVars>>

\* search_patent_with_guards has returned or raised and its caller goes on;
\* the fields of the processor stay as the call left them
SearchReturn ==
  /\ search_pc = "done"
  /\ search_pc' = "idle"
  /\ search_log' = <<>>
  /\ search_result' = "none"
  /\ search_traffic' = <<>>
  /\ search_captures' = <<>>
  /\ UNCHANGED <<refreshVars, windowVars, pdfVars, govVars, tplVars, batchVars, pureVars>>

\* between searches the governor's methods are called
SearchGovUpdate == search_pc = "idle" /\ GovUpdate
SearchGovRecordStage == search_pc = "idle" /\ GovRecordStage

(***************************************************************************)
(* PdfDownloader (src/pdf_downloader.py): process_patent and               *)
(* _download_pdf_with_requests.  Sizes are in bytes.                       *)
(***************************************************************************)
\* line 31
min_pdf_size_kb == 100

\* line 561: the default of max_retries (the only caller, line 787, does not
\* pass it)
max_retries == 3

\* the file at pdfs/<patent_no>_第一次审查意见通知书.pdf
NoFile == [exists |-> FALSE, size |-> 0]
FileOf(n) == [exists |-> TRUE, size |-> n]

\* sizes of a response body: empty, one byte short of the minimum, the
\* minimum, more
BodySizes == {0, min_pdf_size_kb * 1024 - 1, min_pdf_size_kb * 1024,
              2 * min_pdf_size_kb * 1024}

\* values of the content-type header ("" when the header is absent)
ContentTypes == {"application/pdf", "application/pdf;charset=UTF-8",
                 "application/octet-stream", "text/html", ""}

\* line 387: 'application/octet-stream' in content_type or
\* 'application/pdf' in content_type
IsPdfType(ctype) ==
  ctype \in {"application/pdf", "application/pdf;charset=UTF-8",
                    "application/octet-stream"}

\* line 422, a bug variant: no file is too small
NeverTooSmall(file_size) == FALSE

\* line 422: file_size < self.min_pdf_size_kb * 1024
TooSmall(file_size) == file_size < min_pdf_size_kb * 1024

\* what session.get and the streaming of the body can do: session.get (or
\* building the session) raises, or a response arrives with a status, a
\* content type and a body of which `written` bytes reach the file before
\* iter_content raises (all of them when it does not)
DownloadRuns ==
  {[kind |-> "raises", status |-> 0, content_type |-> "", body |-> 0,
    written |-> 0]}
  \cup UNION {{[kind |-> "response", status |-> st, content_type |-> ct,
                 body |-> b, written |-> w] :
                  st \in {200, 404}, ct \in ContentTypes,
                  w \in {x \in BodySizes \cup {1} : x <= b}} :
               b \in BodySizes}

NoDownload == [kind |-> "none", status |-> 0, content_type |-> "", body |-> 0,
               written |-> 0, path |-> "None"]

\* lines 348-443: _download_pdf_with_requests on run r with the file `disk`
\* at the PDF's path: the path returned ("None" for None) and the file left
download_pdf_with_requests(r, disk) ==
  IF r.kind = "raises" \/ r.status # 200 \/ ~IsPdfType(r.content_type)
  THEN [path |-> "None", disk |-> disk]
  ELSE IF r.written < r.body
       THEN \* lines 409-412 raise inside `with open(file_path, 'wb')`: the
            \* part written stays, line 439 returns None
            [path |-> "None", disk |-> FileOf(r.written)]
       ELSE IF TooSmall(r.body)
            THEN [path |-> "None", disk |-> NoFile]
            ELSE [path |-> "pdf_path", disk |-> FileOf(r.body)]

\* how one turn of the loop of process_patent can go before the download
\* (lines 573-627): no pnk, an exception, no examine messages, no first
\* office action among them, a message without a token, or a download
PatentTurns == {"pnk_none", "raises", "no_messages", "no_target", "no_token",
                "download"}

\* process_patent(driver, patent_no) is called
PdfEnter ==
  /\ pdf_pc = "idle"
  /\ pdf_pc' = "attempt"
  /\ pdf_attempt' = 0
  /\ \E disk \in {NoFile} \cup {FileOf(n) : n \in BodySizes} : pdf_disk' = disk
  /\ UNCHANGED <<pdf_call, successful_patents, pdf_counted, pdf_returned>>
  /\ UNCHANGED <<refreshVars, searchVars, windowVars, govVars, tplVars,
                 batchVars, pureVars>>

\* lines 565-648: one turn of the loop of process_patent
PdfAttempt ==
  /\ pdf_pc = "attempt"
  /\ \E turn \in PatentTurns, r \in DownloadRuns :
       LET d == download_pdf_with_requests(r, pdf_disk)
           counted == IF turn = "no_target" THEN "no_document"
                      ELSE IF turn = "download" /\ d.path # "None"
                      THEN "download" ELSE "none"
       IN
       /\ turn # "download" => r.kind = "raises"
       /\ IF turn = "download"
          THEN /\ pdf_call' = [kind |-> r.kind, status |-> r.status,
                               content_type |-> r.content_type,
                               body |-> r.body, written |-> r.written,
                               path |-> d.path]
               /\ pdf_disk' = d.disk
          ELSE UNCHANGED <<pdf_call, pdf_disk>>
       /\ IF counted # "none"
          THEN /\ successful_patents' = successful_patents \cup {1}
               /\ pdf_counted' = counted
               /\ pdf_returned' = "True"
               /\ pdf_pc' = "done"
               /\ UNCHANGED pdf_attempt
          ELSE /\ UNCHANGED <<successful_patents, pdf_counted>>
               /\ IF pdf_attempt < max_retries - 1
                  THEN /\ pdf_attempt' = pdf_attempt + 1
                       /\ UNCHANGED <<pdf_returned, pdf_pc>>
                  ELSE /\ pdf_returned' = "False"
                       /\ pdf_pc' = "done"
                       /\ UNCHANGED pdf_attempt
  /\ UNCHANGED <<refreshVars, searchVars, windowVars, govVars, tplVars,
                 batchVars, pureVars>>

(***************************************************************************)
(* Specifications                                                          *)
(***************************************************************************)
IdleRefresh == last_refresh = "none"

IdleSearch ==
  /\ search_log = <<>>
  /\ search_result = "none"
  /\ search_pc = "idle"
  /\ search_traffic = <<>>
  /\ search_captures = <<>>

IdleWindow ==
  /\ stage_log = [stage \in StageNames |-> <<>>]
  /\ records_made = 0
  /\ average_read = NoRead

IdlePdf ==
  /\ pdf_attempt = 0
  /\ pdf_disk = NoFile
  /\ pdf_call = NoDownload
  /\ successful_patents = {}
  /\ pdf_counted = "none"
  /\ pdf_returned = "none"
  /\ pdf_pc = "idle"

IdleAux == IdleRefresh /\ IdleSearch /\ IdleWindow /\ IdlePdf

IdleBatch ==
  /\ patent_list = <<>>
  /\ output_file = AbsentFile
  /\ skip_search = TRUE
  /\ skip_unavailable = TRUE
  /\ stage_duration = 4
  /\ failed_file = AbsentFile
  /\ unavailable_file = AbsentFile
  /\ completed_patents = {}
  /\ existing_results = <<>>
  /\ remaining_patents = <<>>
  /\ results = <<>>
  /\ failed_patents = <<>>
  /\ unavailable_patents = <<>>
  /\ consecutive_failures = 0
  /\ consecutive_not_found = 0
  /\ i = 0
  /\ pc = "idle"
  /\ returned = <<>>
  /\ attempted = <<>>
  /\ produced = <<>>
  /\ prior_output = AbsentFile

Init ==
  InitProcessor /\ InitTemplateCache /\ InitBatch /\ IdleDecoder /\ IdleParse
    /\ IdleFetch /\ IdleAux
Next == BatchLoad \/ BatchLogin \/ BatchSkipUnavailable \/ BatchRestart
        \/ BatchProcess \/ BatchFinish
Spec == Init /\ [][Next]_vars

\* the loop of a run with the default arguments stands at its first session
\* refresh: twenty identifiers have had their turn, the last n of them
\* failed and the others were fetched and saved
InitRefreshPoint ==
  \E tail \in 1..MaxTail, n \in 0..3 :
    LET fetched_so_far == [k \in 1..(refresh_every - n) |-> Rec(k, "fetched")]
    IN
    /\ patent_list = [k \in 1..(refresh_every + tail) |-> k]
    /\ output_file = JsonFile(fetched_so_far)
    /\ skip_search = TRUE
    /\ skip_unavailable \in BOOLEAN
    /\ stage_duration = 4
    /\ failed_file = AbsentFile
    /\ unavailable_file = AbsentFile
    /\ completed_patents = {}
    /\ existing_results = <<>>
    /\ remaining_patents = patent_list
    /\ results = fetched_so_far
    /\ failed_patents = [k \in 1..n |-> refresh_every - n + k]
    /\ unavailable_patents = <<>>
    /\ consecutive_failures = n
    /\ consecutive_not_found = 0
    /\ i = refresh_every + 1
    /\ pc = "refresh"
    /\ returned = <<>>
    /\ attempted = [k \in 1..refresh_every |-> k]
    /\ produced = fetched_so_far
    /\ prior_output = AbsentFile

InitRefresh ==
  InitProcessor /\ InitTemplateCache /\ InitRefreshPoint /\ IdleDecoder
    /\ IdleParse /\ IdleFetch /\ IdleAux
NextRefresh == BatchRefresh \/ BatchRestart \/ BatchProcess \/ BatchFinish
SpecRefresh == InitRefresh /\ [][NextRefresh]_vars

InitWindowSpec ==
  InitWindow /\ InitTemplateCache /\ IdleBatch /\ IdleDecoder /\ IdleParse
    /\ IdleFetch /\ IdleRefresh /\ IdleSearch /\ IdlePdf
NextWindow == WinRecord \/ WinAverage
SpecWindow == InitWindowSpec /\ [][NextWindow]_vars

InitSearch ==
  InitProcessor /\ InitTemplateCache /\ IdleBatch /\ IdleDecoder /\ IdleParse
    /\ IdleFetch /\ IdleAux
NextSearch == SearchGovUpdate \/ SearchGovRecordStage \/ SearchEnter
              \/ SearchPrimary \/ SearchFallback \/ SearchReturn
SpecSearch == InitSearch /\ [][NextSearch]_vars

InitPdf ==
  InitProcessor /\ InitTemplateCache /\ IdleBatch /\ IdleDecoder /\ IdleParse
    /\ IdleFetch /\ IdleAux
NextPdf == PdfEnter \/ PdfAttempt
SpecPdf == InitPdf /\ [][NextPdf]_vars

InitGovernor ==
  InitProcessor /\ InitTemplateCache /\ IdleBatch /\ IdleDecoder /\ IdleParse
    /\ IdleFetch /\ IdleAux
NextGovernor == GovUpdate \/ GovRecordStage
SpecGovernor == InitGovernor /\ [][NextGovernor]_vars

InitTemplate ==
  InitProcessor /\ InitTemplateCache /\ IdleBatch /\ IdleDecoder /\ IdleParse
    /\ IdleFetch /\ IdleAux
NextTemplate == TplCapture \/ TplCaptureWhenSet \/ TplFetchRefused \/ TplFetchIssued \/ TplTick
SpecTemplate == InitTemplate /\ [][NextTemplate]_vars
InitDecoderSpec ==
  InitProcessor /\ InitTemplateCache /\ IdleBatch /\ InitDecoder /\ IdleParse
    /\ IdleFetch /\ IdleAux
NextDecoder == DecEnter \/ DecTurn \/ DecReturn
\* the loop is sequential code: it keeps running while it can
SpecDecoder ==
  InitDecoderSpec /\ [][NextDecoder]_vars /\ WF_vars(NextDecoder)

InitParseSpec ==
  InitProcessor /\ InitTemplateCache /\ IdleBatch /\ IdleDecoder /\ InitParse
    /\ IdleFetch /\ IdleAux
NextParse == ParseResponse \/ ExtractQueryString
SpecParse == InitParseSpec /\ [][NextParse]_vars

InitFetchSpec ==
  InitProcessor /\ InitTemplateCache /\ IdleBatch /\ IdleDecoder /\ IdleParse
    /\ InitFetch /\ IdleAux
NextFetch == FetchEnter \/ FetchCommonInfo \/ FetchBaseInfo
SpecFetch == InitFetchSpec /\ [][NextFetch]_vars

(***************************************************************************)
(* Properties                                                              *)
(***************************************************************************)
\* the records a file holds (none when it is absent or unreadable)
PersistedRecords(f) == IF f.state = "json" THEN f.records ELSE <<>>

PatentNos(rs) == {rs[k].patent_no : k \in 1..Len(rs)}

\* C1 (Spec): single-identifier processing is never invoked for an
\* identifier whose patent_no is in the output file loaded at the start of
\* the run; every identifier attempted is one of the input list that the
\* file does not hold.
C1_Resumption ==
  \A k \in 1..Len(attempted) :
    /\ attempted[k] \notin PatentNos(PersistedRecords(prior_output))
    /\ attempted[k] \in Range(patent_list)

\* C1 witness: the file held one of the listed identifiers, and another
\* identifier of the list has been attempted
C1_Witness ==
  /\ attempted # <<>>
  /\ \E k \in 1..Len(patent_list) :
       patent_list[k] \in PatentNos(PersistedRecords(prior_output))

\* C2 (Spec): the output collection never holds two records with the same
\* patent_no, whatever the input list (as claimed; the code does not remove
\* a repeated identifier from the input list).
C2_NoDuplicatePatentNo ==
  \A a, b \in 1..Len(results) :
    a # b => results[a].patent_no # results[b].patent_no

SearchAverageExceeds12 ==
  /\ Len(speed_stats["search"]) > 0
  /\ SumSeq(speed_stats["search"]) > 12 * Len(speed_stats["search"])

\* C4 (SpecGovernor): in normal mode a non-fallback success switches to fast
\* mode exactly when it is the third in a row since the mode became normal;
\* a failure reported in fast mode leaves normal mode with a streak of 0.
C4_ModeTransition ==
  gov_call.op = "update" =>
    /\ (gov_call.mode_before = "normal" /\ gov_call.success
          /\ ~gov_call.used_fallback)
         => (performance_mode = "fast" <=> gov_call.run_before + 1 = 3)
    /\ (gov_call.mode_before = "fast" /\ ~gov_call.success)
         => (performance_mode = "normal" /\ success_streak = 0)

\* C4 witness: the third non-fallback success in a row in normal mode has
\* switched the governor to fast mode
C4_Witness ==
  /\ gov_call.op = "update"
  /\ gov_call.mode_before = "normal"
  /\ gov_call.success /\ ~gov_call.used_fallback
  /\ gov_call.run_before = 2
  /\ performance_mode = "fast"

\* C5 (SpecGovernor): before any outcome has been reported the mode is
\* normal (as claimed; __init__ sets "fast").
C5_InitialModeNormal ==
  (gov_call.op = "none" /\ TotalSamples = 0) => performance_mode = "normal"

\* C6 (SpecGovernor): after a call made in fast mode the mode is normal if
\* the outcome was a failure, a success that used the fallback, or a success
\* reported while the search average exceeds 12; otherwise it is still fast.
C6_FastModeExit ==
  (gov_call.op = "update" /\ gov_call.mode_before = "fast") =>
    IF ~gov_call.success \/ gov_call.used_fallback \/ SearchAverageExceeds12
    THEN performance_mode = "normal"
    ELSE performance_mode = "fast"

\* C6 witness: a non-fallback success in fast mode with a slow search
\* average has left fast mode
C6_Witness ==
  /\ gov_call.op = "update"
  /\ gov_call.mode_before = "fast"
  /\ gov_call.success /\ ~gov_call.used_fallback
  /\ SearchAverageExceeds12
  /\ performance_mode = "normal"

\* a _direct_fetch_tokens call has just recorded a failure
FailureRecorded == tpl_call.op = "fetch" /\ tpl_call.failure # "none"

\* the call left no request and no result
Refused == ~tpl_call.issued /\ tpl_call.result = "None"

\* C7 as claimed (SpecTemplate): once the third failure has set the
\* cooldown timestamp, every _direct_fetch_tokens call before that
\* timestamp is refused, whatever happened in between (captures included).
C7_CooldownWhateverBetween ==
  (tpl_call.op = "fetch" /\ tpl_call.trip_before # 0
     /\ now < tpl_call.trip_before) => Refused

\* C7 amended (SpecTemplate): once the third failure has set the cooldown
\* timestamp, every _direct_fetch_tokens call before that timestamp is
\* refused, for any identifier and whatever failures or successes are
\* recorded in between, even if a template is cached, as long as no capture
\* has installed a new template since.
C7_CooldownUntilCapture ==
  (tpl_call.op = "fetch" /\ tpl_call.live_before # 0
     /\ now < tpl_call.live_before) => Refused

\* C7 witness: a call for an identifier that is not denylisted was refused
\* during the cooldown although a template was cached
C7_Witness ==
  /\ tpl_call.op = "fetch"
  /\ tpl_call.live_before # 0 /\ now < tpl_call.live_before
  /\ tpl_call.had_template
  /\ tpl_call.patent_no \notin direct_search_blocklist
  /\ Refused

C9_ClearedByTwoParseFailures ==
  FailureRecorded =>
    ((direct_search_template = NoTemplate)
       <=> (tpl_call.failure \in ParseReasons /\ tpl_call.prev_before = "parse"))

\* C10 as claimed (SpecTemplate): every failure recorded with an identifier
\* puts the identifier on the denylist, whatever the reason.
C10_AnyFailureDenylists ==
  FailureRecorded => tpl_call.patent_no \in direct_search_blocklist

\* C10 amended (SpecTemplate): a recorded failure puts its identifier on the
\* denylist exactly when it is a decode/parse failure (parse exception, or
\* no token decoded); a transport failure or a non-OK status does not.
C10_ParseFailureDenylists ==
  FailureRecorded =>
    (tpl_call.patent_no \in direct_search_blocklist
       <=> tpl_call.failure \in ParseReasons)

\* C10 witness: a parse exception has been recorded and its identifier is
\* on the denylist
C10_Witness ==
  /\ FailureRecorded
  /\ tpl_call.failure = "parse_failed"
  /\ tpl_call.patent_no \in direct_search_blocklist
\* C11 (SpecTemplate): a _direct_fetch_tokens call for an identifier that is
\* on the denylist issues no request and leaves the template, the failure
\* counter and the cooldown as they were; no step removes an identifier from
\* the denylist.
C11_DenylistedNeverRetried ==
  [][ /\ direct_search_blocklist \subseteq direct_search_blocklist'
      /\ (tpl_call'.op = "fetch"
            /\ tpl_call'.patent_no \in direct_search_blocklist)
           => /\ ~tpl_call'.issued
              /\ tpl_call'.result = "None"
              /\ UNCHANGED <<direct_search_template, direct_search_failures,
                             direct_search_disabled_until>> ]_vars

\* C11 witness: a call for a denylisted identifier was refused while a
\* template was cached and no cooldown was set
C11_Witness ==
  /\ tpl_call.op = "fetch"
  /\ tpl_call.patent_no \in direct_search_blocklist
  /\ ~tpl_call.issued
  /\ tpl_call.had_template
  /\ direct_search_disabled_until = 0

\* C12 (SpecTemplate): a _capture_direct_search_template call made while a
\* template is set leaves the template, the failure counter, the cooldown
\* timestamp and the denylist unchanged, whatever the log contains.
C12_CaptureNoOpWhenSet ==
  [][ (tpl_call'.op = "capture" /\ direct_search_template # NoTemplate)
        => UNCHANGED <<direct_search_template, direct_search_failures,
                       direct_search_disabled_until,
                       direct_search_blocklist>> ]_vars

\* C12 witness: the capture was called with a log holding a usable request
\* while a template was set and failures had been counted
C12_Witness ==
  /\ tpl_call.op = "capture"
  /\ tpl_call.had_template
  /\ tpl_call.log_candidate
  /\ tpl_call.result = "None"
  /\ direct_search_failures > 0

NoStringTwice(list) ==
  \A a, b \in 1..Len(list) : a # b => list[a] # list[b]

\* C13 as claimed (SpecDecoder): for every input string the list returned
\* by _iter_decoded_variants starts with the input and holds no string
\* twice.
C13_FirstIsInputAlways ==
  dec_pc = "done" =>
    /\ Len(variants) >= 1 /\ variants[1] = value
    /\ NoStringTwice(variants)

\* C13 amended (SpecDecoder): for every input string _iter_decoded_variants
\* terminates and returns a list that holds no string twice; for a
\* non-empty input its first element is the input, for the empty string it
\* is the empty list.
C13_DecoderFixedPoint ==
  /\ <>(dec_pc = "done")
  /\ [](dec_pc = "done" =>
          /\ NoStringTwice(variants)
          /\ IF value = <<>> THEN variants = <<>>
             ELSE Len(variants) >= 1 /\ variants[1] = value)

\* C13 witness: the multiply-encoded '%2525' has been decoded twice over
C13_Witness ==
  /\ dec_pc = "done"
  /\ value = <<"%", "2", "5", "2", "5">>
  /\ variants = << <<"%", "2", "5", "2", "5">>, <<"%", "2", "5">>, <<"%">> >>
\* the spec's example and its variants: the data field of a JSON object
\* carries pnk, oid (separator and equals sign percent-encoded or not) and
\* folderFlag
ExampleDocs ==
  {Obj(<<"data">>,
       <<Str(<<"pnk", "=", "ABC">> \o sep \o <<"oid">> \o eq
               \o <<"123", "&", "folderFlag", "=", "X">>)>>) :
     sep \in {<<"&">>, <<"%", "2", "6">>},
     eq \in {<<"=">>, <<"%", "3", "D">>}}

\* C14 (SpecParse): for a JSON object whose data field is a query-string
\* text carrying pnk, oid and folderFlag, as in
\* {"data":"pnk=ABC%26oid%3D123&folderFlag=X"}, the parser returns a token
\* set with pnk = "ABC" and oid = "123" (as claimed; the code returns None).
C14_DataFieldQueryString ==
  (parse_pc = "done" /\ text \in ExampleDocs) =>
    /\ tokens.found
    /\ tokens.pnk = <<"ABC">>
    /\ tokens.oid = <<"123">>

\* the pnk value of the first object with a pnk key, depth first (<<>> when
\* there is none)
RECURSIVE PnkOfFirst(_)
RECURSIVE PnkOfFirstKid(_)
PnkOfFirst(n) ==
  CASE n.kind = "obj" ->
         IF HasKey(n, "pnk") THEN ValueOf(n.kids[KeyIndex(n, "pnk")])
         ELSE PnkOfFirstKid(n.kids)
    [] n.kind = "arr" -> PnkOfFirstKid(n.kids)
    [] n.kind = "jstr" -> PnkOfFirst(n.kids[1])
    [] OTHER -> <<>>

PnkOfFirstKid(kids) ==
  IF kids = <<>> THEN <<>>
  ELSE IF PnkOfFirst(Head(kids)) # <<>> THEN PnkOfFirst(Head(kids))
  ELSE PnkOfFirstKid(Tail(kids))

\* C15 (SpecParse): when the text parses as JSON and its tree holds an
\* object with a pnk key, the parser returns the token set of the first
\* such object in depth-first order, with or without folderFlag and oid (as
\* claimed; the code asks for all three keys).
C15_FirstObjectWithPnk ==
  (parse_pc = "done" /\ IsJson(text) /\ PnkOfFirst(text) # <<>>) =>
    (tokens.found /\ tokens.pnk = PnkOfFirst(text))

\* C16 (SpecParse): for a query-string text in which a pnk= pair and an
\* oid= pair with non-empty values are present,
\* _extract_tokens_from_query_string returns those values, folderFlag or
\* not (as claimed; the code asks for a folderFlag pair, and does not find
\* one that is there).
C16_PnkAndOidSuffice ==
  (parse_pc = "extracted" /\ HasAssign(text.str, "pnk")
     /\ HasAssign(text.str, "oid")) =>
    /\ tokens.found
    /\ tokens.pnk = <<"ABC">>
    /\ tokens.oid = <<"123">>
\* C17 (SpecFetch): every record fetch_details_immediately returns has all
\* nine keys and no null value, whatever the two payloads hold (as claimed;
\* a null in_or is copied into the record).
C17_NoNullInRecord ==
  (fetch_pc = "done" /\ fetched.returned) =>
    /\ DOMAIN fetched.record = RecordKeys
    /\ \A key \in RecordKeys : fetched.record[key] \notin {"null", "absent"}

\* C18 (SpecFetch): a record is returned only after getPatentCommonInfo and
\* then baseInfo both reported success and the baseInfo data is a non-empty
\* object; without a pnk, or when the first call fails, the result is None
\* and baseInfo is not called; an exception raised inside gives None.
C18_RecordOnlyAfterBothCalls ==
  fetch_pc = "done" =>
    /\ fetched.returned =>
         /\ calls = <<"getPatentCommonInfo", "baseInfo">>
         /\ common_info.kind = "ok" /\ base_info.kind = "ok"
         /\ base_info.data = "dict"
    /\ (fetch_tokens # "pnk" \/ (calls # <<>> /\ common_info.kind # "ok")) =>
         /\ fetched = NoRecord
         /\ \A k \in 1..Len(calls) : calls[k] # "baseInfo"
    /\ fetch_exc => fetched = NoRecord

\* C18 witness: both calls reported success and a record was returned
C18_Witness ==
  /\ fetch_pc = "done"
  /\ fetched.returned
  /\ calls = <<"getPatentCommonInfo", "baseInfo">>
  /\ fetched.record["inventors"] = "text"

\* C19 (Spec): when a run that processed identifiers has ended, every
\* identifier whose processing failed is in the failed list that the failed
\* sidecar file holds, each processing either failed or added its record,
\* and the output returned is the prior records followed by exactly the
\* records of the identifiers whose processing succeeded (as claimed; the
\* code writes the sidecar file only when the run ends without an
\* exception).  A run in which writing the sidecar file itself went wrong is
\* left aside.
C19_FailedInSidecarOutputExact ==
  (pc = "done" /\ attempted # <<>> /\ failed_file # CorruptFile) =>
    /\ \A k \in 1..Len(failed_patents) :
         failed_patents[k] \in Range(PersistedRecords(failed_file))
    /\ Len(produced) + Len(failed_patents) = Len(attempted)
    /\ returned = PersistedRecords(prior_output) \o produced

\* the identifier whose turn it is is marked unavailable and passed over:
\* nothing is searched, extracted or fetched for it, and neither the output
\* nor the failed list changes
MarkedUnavailableUntried ==
  /\ unavailable_patents' = Append(unavailable_patents, remaining_patents[i])
  /\ attempted' = attempted
  /\ results' = results
  /\ output_file' = output_file
  /\ failed_patents' = failed_patents
  /\ search_success_count' = search_success_count
  /\ search_fail_count' = search_fail_count

\* C20 as claimed (Spec): whenever the not-found streak is 5 or more at the
\* start of an identifier's turn, the identifier is marked unavailable and
\* passed over (the code does so only when skip_unavailable is set).
C20_SkipAtStreakFive ==
  [][(pc = "iter" /\ consecutive_not_found >= 5) => MarkedUnavailableUntried]_vars

\* C20 (Spec): when skip_unavailable is set and the not-found streak has
\* reached 5 at the start of an identifier's turn, the identifier is
\* appended to the unavailable list, nothing is searched, extracted or
\* fetched for it, and it is added neither to the output nor to the failed
\* list.
C20_SkipAtStreakFiveWhenEnabled ==
  [][(pc = "iter" /\ skip_unavailable /\ consecutive_not_found >= 5)
       => MarkedUnavailableUntried]_vars

\* C20 witness: after five not-found results in a row the sixth identifier
\* was marked unavailable without being attempted
C20_Witness ==
  /\ skip_unavailable
  /\ Len(attempted) = 5
  /\ Len(failed_patents) = 5
  /\ unavailable_patents = <<remaining_patents[6]>>
  /\ remaining_patents[6] \notin Range(attempted)
  /\ remaining_patents[6] \notin Range(failed_patents)
  /\ remaining_patents[6] \notin PatentNos(results)

\* C21 (Spec): an identifier is attempted either when fewer than three
\* failures in a row have occurred, or right after a restart whose login
\* succeeded, with the consecutive-failure counter at 0; at three failures
\* in a row the turn first restarts the browser and logs in without
\* attempting anything, and once the loop has been left (a failed login
\* leaves it) no identifier is attempted any more.
C21_ForcedRestart ==
  [][/\ attempted' # attempted =>
          \/ pc = "iter" /\ consecutive_failures < 3
          \/ pc = "process" /\ consecutive_failures = 0
     /\ (pc = "iter" /\ ~SkipsAsUnavailable /\ consecutive_failures >= 3) =>
          /\ attempted' = attempted
          /\ pc' \in {"process", "finish", "done"}
          /\ pc' = "process" => consecutive_failures' = 0
     /\ pc \in {"finish", "done"} => attempted' = attempted]_vars

\* C21 witness: three identifiers failed in a row, the browser was
\* restarted, and the fourth identifier was attempted (and failed) with the
\* counter back at 0
C21_Witness ==
  /\ Len(attempted) = 4
  /\ Len(failed_patents) = 4
  /\ consecutive_failures = 1

\* C22 (Spec): the batch loop is left only in the turn of the last remaining
\* identifier, or by the failed login of a forced restart (as claimed;
\* in the code an exception raised by save_results_realtime or by the
\* restart leaves the loop through the outer handler).
C22_LoopEndsOnlyByLoginFailure ==
  [][(pc \in {"iter", "process"} /\ pc' \notin {"iter", "process"}) =>
       \/ i >= Len(remaining_patents)
       \/ /\ pc = "iter" /\ NeedsRestart
          /\ pc' = "finish"
          /\ attempted' = attempted]_vars

\* C23 as claimed (SpecRefresh): once a re-authentication has failed, at the
\* periodic session refresh or after a forced restart (which leaves the
\* loop), no further identifier is attempted (in the code the failed login
\* of the refresh is only reported and the loop goes on).
C23_FailedReloginEndsRun ==
  [][(last_refresh = "relogin_failed" \/ pc \in {"finish", "done"})
       => attempted' = attempted]_vars

\* C23 (SpecRefresh): a failed login after a forced restart leaves the loop
\* and no further identifier is attempted; the periodic session refresh,
\* whatever its outcome (a failed login included), is followed by the turn
\* of the next identifier.
C23_OnlyRestartLoginIsFatal ==
  [][/\ (pc = "iter" /\ NeedsRestart /\ pc' \notin {"iter", "process"})
          => attempted' = attempted
     /\ pc \in {"finish", "done"}
          => (attempted' = attempted /\ pc' \in {"finish", "done"})
     /\ pc = "refresh"
          => (pc' = "iter" /\ i' = i /\ attempted' = attempted)]_vars

\* C23 witness: the login of the session refresh failed, the 21st
\* identifier was attempted all the same, and later the failed login of a
\* forced restart left the loop before the last identifier's attempt
C23_Witness ==
  /\ last_refresh = "relogin_failed"
  /\ Len(attempted) = refresh_every + 1
  /\ pc = "finish"
  /\ i <= Len(remaining_patents)

\* a is b with some elements left out (the order kept)
RECURSIVE IsSubseq(_, _)
IsSubseq(a, b) ==
  IF a = <<>> THEN TRUE
  ELSE IF b = <<>> THEN FALSE
  ELSE IF Head(a) = Head(b) THEN IsSubseq(Tail(a), Tail(b))
  ELSE IsSubseq(a, Tail(b))

\* the patent_no of each record, in order
PatentNoSeq(rs) == [k \in 1..Len(rs) |-> rs[k].patent_no]

\* C24 (Spec): the identifiers attempted are attempted in the order of the
\* input list with the already-completed ones left out, one per turn, and
\* once an identifier has been attempted the output is the prior records
\* followed by the records of this run in the order in which their
\* identifiers were attempted.
C24_Ordering ==
  /\ IsSubseq(attempted,
              SelectNotIn(patent_list, PatentNos(PersistedRecords(prior_output))))
  /\ Len(attempted) <= i
  /\ IsSubseq(PatentNoSeq(produced), attempted)
  /\ attempted # <<>> => results = PersistedRecords(prior_output) \o produced

\* C24 witness: of the first three identifiers of the list, attempted in
\* that order, the first and the third gave records, appended in that order
C24_Witness ==
  /\ Len(patent_list) >= 3
  /\ attempted = <<patent_list[1], patent_list[2], patent_list[3]>>
  /\ results = <<Rec(patent_list[1], "fetched"), Rec(patent_list[3], "fetched")>>

\* C25 (SpecSearch): search_patent_with_guards makes at most 3 attempts in
\* normal mode and at most 2 in fast mode, the primary search being the
\* first and the others fallback searches, and it returns false only when
\* that many attempts have been made and none found the patent.
C25_RetryBudget ==
  LET budget == IF performance_mode = "fast" THEN 2 ELSE 3
  IN /\ Len(search_log) <= budget
     /\ \A k \in 1..Len(search_log) :
          search_log[k].tag = IF k = 1 THEN "primary" ELSE "fallback"
     /\ search_result = "False" =>
          /\ Len(search_log) = budget
          /\ \A k \in 1..Len(search_log) : ~search_log[k].found

\* C25 witness: in fast mode the search returned false after the primary
\* search and one fallback search
C25_Witness ==
  /\ performance_mode = "fast"
  /\ search_result = "False"
  /\ Len(search_log) = 2
  /\ search_log[2].tag = "fallback"

\* C26 (SpecSearch): for every fallback attempt, in fast mode with a rolling
\* average search duration of at most 8 the base used by
\* _adaptive_wait_timeout is lower than the fast profile's base, with an
\* average of at least 12 it is higher, and in normal mode it is the normal
\* profile's base (as claimed; the code's floor of 3.5 lies above the fast
\* base of 3.0).
C26_AdaptiveBase ==
  \A k \in 1..Len(search_log) :
    search_log[k].tag = "fallback" =>
      LET configured == timeout_profiles(performance_mode).base
          window == speed_stats["search"]
      IN /\ (performance_mode = "fast" /\ window # <<>>
               /\ SumSeq(window) <= 8 * Len(window))
              => search_log[k].base < configured
         /\ (performance_mode = "fast" /\ window # <<>>
               /\ SumSeq(window) >= 12 * Len(window))
              => search_log[k].base > configured
         /\ performance_mode = "normal" => search_log[k].base = configured

\* the last n elements of s (all of s when it has fewer)
LastN(s, n) == IF Len(s) <= n THEN s ELSE SubSeq(s, Len(s) - n + 1, Len(s))

\* C27 (SpecWindow): each of the windows search, token and fetch holds at
\* most 20 samples, namely the last ones recorded for its stage in the order
\* recorded; samples recorded under an unknown stage name are in no window;
\* and _get_average_stage_time returns None exactly when the stage has no
\* sample in a window, and otherwise the sum of the window's samples over
\* their number.
C27_StageWindow ==
  /\ DOMAIN speed_stats = Stages
  /\ \A stage \in Stages :
       /\ Len(speed_stats[stage]) <= 20
       /\ speed_stats[stage] = LastN(stage_log[stage], 20)
  /\ average_read.stage # "none" =>
       LET window == IF average_read.stage \in Stages
                     THEN LastN(average_read.log, 20) ELSE <<>>
       IN /\ average_read.value.null <=> window = <<>>
          /\ window # <<>> =>
               /\ average_read.value.sum = SumSeq(window)
               /\ average_read.value.len = Len(window)

\* C27 witness: a 21st and a 22nd sample were recorded for the search stage,
\* the two oldest were evicted, and the average of the full window was read
C27_Witness ==
  /\ Len(stage_log["search"]) = 22
  /\ Len(speed_stats["search"]) = 20
  /\ speed_stats["search"][1] = stage_log["search"][3]
  /\ stage_log["login"] # <<>>
  /\ average_read.stage = "search"
  /\ average_read.log = stage_log["search"]
  /\ ~average_read.value.null

\* the file holds the list (an empty list is not written)
Holds(file, list) == list = <<>> \/ file = JsonFile(list)

\* C28 (Spec): when the call completes, with the loop finished or left by
\* the failed login of a restart, or with nothing left to process at the
\* start, the sidecar files hold the failed and the unavailable list and
\* the call returns the prior records followed by those produced in the run
\* (as claimed; the code returns an empty list when every identifier was
\* already completed).  A completion in which writing a sidecar file went
\* wrong is left aside.
C28_CompletionReturnsAccumulated ==
  [][(/\ pc \in {"start", "finish"} /\ pc' = "done"
      /\ failed_file' # CorruptFile /\ unavailable_file' # CorruptFile)
       => /\ Holds(failed_file', failed_patents')
          /\ Holds(unavailable_file', unavailable_patents')
          /\ returned' = PersistedRecords(prior_output) \o produced']_vars

\* C29 (Spec): when an identifier fails, the not-found streak grows by one
\* exactly when its own search returned false after its retries (the step
\* counts a search failure), and is reset to 0 by a failure of any other
\* kind (as claimed; the code compares the search failures counted so far
\* with the length of the failed list).
C29_NotFoundClassification ==
  [][failed_patents' # failed_patents =>
       consecutive_not_found' =
         IF search_fail_count' > search_fail_count
         THEN consecutive_not_found + 1 ELSE 0]_vars

\* C30 (SpecFetch): the first_applicant of a returned record is empty or the
\* first entry of the applicant list, and it is that entry only if
\* is_organization accepts it (a name with a keyword, an upper-case word, a
\* symbol, digits at its end, or a known company).
C30_FirstApplicantIsOrganization ==
  (fetch_pc = "done" /\ fetched.returned) =>
    LET ap_root == base_info.fields[3]
        name == fetched.first_applicant
    IN /\ fetched.record["first_applicant"] = "" <=> name = <<>>
       /\ name # <<>> =>
            /\ ap_root.kind = "list" /\ ap_root.names # <<>>
            /\ name = ap_root.names[1]
            /\ \/ \E k \in 1..Len(name) : name[k] \in {"kw", "-"}
               \/ HasUpperWord(name)
               \/ strip(name) # <<>> /\ strip(name)[Len(strip(name))] = "7"
               \/ strip(name) = <<"sony">>

\* C30 witness: the first applicant is a person and the second a company,
\* and the record returned has an empty first_applicant
C30_Witness ==
  /\ fetch_pc = "done"
  /\ fetched.returned
  /\ base_info.fields[3] = ListAp(<<<<"y", "y">>, <<"y", "kw">>>>)
  /\ fetched.record["first_applicant"] = ""

\* C31 (SpecSearch): in every mode, with every window of search durations
\* and for every attempt number from 1 on, _adaptive_wait_timeout returns
\* the smaller of the mode's max and base + increment * (attempt - 1), base
\* being the base the call works with; the result never exceeds the mode's
\* max and does not decrease as the attempt number grows.  The wait timeout
\* of every fallback attempt made is that value for its attempt number.
C31_AdaptiveTimeoutValue ==
  LET profile == timeout_profiles(performance_mode)
      base == adaptive_base(performance_mode, speed_stats)
      result(a) == adaptive_wait_timeout(performance_mode, speed_stats, a)
  IN /\ \A a \in 1..MaxAttempt :
          /\ result(a) = Min(profile.max, base + profile.increment * (a - 1))
          /\ result(a) <= profile.max
          /\ a < MaxAttempt => result(a) <= result(a + 1)
     /\ \A k \in 1..Len(search_log) :
          search_log[k].tag = "fallback" => search_log[k].wait_timeout = result(k)

\* C31 witness: a fallback attempt was made with a raised base, and for the
\* largest attempt number the max of the mode is what caps the result
C31_Witness ==
  /\ Len(search_log) >= 2
  /\ search_log[2].tag = "fallback"
  /\ search_log[2].base > timeout_profiles(performance_mode).base
  /\ adaptive_base(performance_mode, speed_stats)
       + timeout_profiles(performance_mode).increment * (MaxAttempt - 1)
         > timeout_profiles(performance_mode).max

\* the order of the tactics in search_log: the primary search is the first
\* attempt of every call, and a fallback search is made only after the
\* primary search did not find the patent
TacticOrder ==
  /\ search_pc \in {"fallback", "done"} => search_log # <<>>
  /\ \A k \in 1..Len(search_log) :
       /\ k = 1 => search_log[k].tag = "primary"
       /\ search_log[k].tag = "fallback" => k > 1 /\ ~search_log[1].found

C33_TemplateCapturedBeforeFallback ==
  (/\ Len(search_log) >= 2
   /\ LastCandidate(search_traffic) # NoCandidate
   /\ BuildTemplate(LastCandidate(search_traffic)) # NoTemplate)
    => direct_search_template # NoTemplate

\* C35 (SpecSearch): when search_patent_with_guards has returned true,
\* last_search_used_fallback is true exactly when the attempt that found the
\* patent was a fallback search, whatever the flag was before the call.
C35_FlagTellsTacticUsed ==
  search_result = "True" =>
    /\ search_log[Len(search_log)].found
    /\ last_search_used_fallback
         <=> search_log[Len(search_log)].tag = "fallback"

\* C35 witness: the search returned true through its second fallback search
C35_Witness ==
  /\ search_result = "True"
  /\ Len(search_log) = 3
  /\ search_log[3].tag = "fallback"
  /\ last_search_used_fallback

\* C34 (SpecPdf): _download_pdf_with_requests returns a path only for a
\* response with status 200, a content type naming application/pdf or
\* application/octet-stream, and a saved file of at least 100 KB; a saved
\* file smaller than that is deleted and None is returned; and process_patent
\* puts the identifier in successful_patents on account of a download only
\* when that download returned such a path.
C34_PdfValidation ==
  LET saved == /\ pdf_call.kind = "response" /\ pdf_call.status = 200
               /\ pdf_call.content_type \in
                    {"application/pdf", "application/pdf;charset=UTF-8",
                     "application/octet-stream"}
               /\ pdf_call.written = pdf_call.body
  IN /\ pdf_call.path # "None" =>
          /\ saved
          /\ pdf_call.body >= 102400
          /\ pdf_disk = FileOf(pdf_call.body)
     /\ (saved /\ pdf_call.body < 102400) =>
          /\ pdf_call.path = "None"
          /\ ~pdf_disk.exists
     /\ pdf_counted = "download" => pdf_call.path # "None"
     /\ 1 \in successful_patents <=> pdf_counted # "none"

\* C34 witness: the third turn of process_patent downloaded a PDF one byte
\* short of the minimum over a file left by an earlier turn; the file was
\* deleted and process_patent returned false
C34_Witness ==
  /\ pdf_pc = "done"
  /\ pdf_returned = "False"
  /\ pdf_attempt = 2
  /\ pdf_call.kind = "response" /\ pdf_call.status = 200
  /\ pdf_call.content_type = "application/pdf"
  /\ pdf_call.written = pdf_call.body
  /\ pdf_call.body = 102399
  /\ ~pdf_disk.exists
  /\ successful_patents = {}

\* C36 (SpecGovernor): whatever calls of _update_performance_profile have
\* been made, the success streak is between 0 and 2 whenever the mode is
\* normal, and it is 0 right after every call that changed the mode, in
\* either direction.
C36_StreakInvariant ==
  /\ performance_mode = "normal" => success_streak \in 0..2
  /\ (gov_call.op = "update" /\ gov_call.mode_before # performance_mode)
       => success_streak = 0

\* C36 witness: in normal mode the streak has reached 2 after a success
\* reported in normal mode
C36_Witness ==
  /\ gov_call.op = "update"
  /\ gov_call.mode_before = "normal"
  /\ performance_mode = "normal"
  /\ success_streak = 2

\* C37 (Spec): single-identifier processing is called only while the
\* consecutive-failure counter is below 3; the counter goes back to 0 only
\* in a turn whose identifier succeeded or in a forced restart whose login
\* succeeded; and marking an identifier unavailable leaves it unchanged.
C37_NoAttemptAtThreeFailures ==
  [][/\ attempted' # attempted =>
          /\ consecutive_failures < 3
          /\ consecutive_failures' \in {0, consecutive_failures + 1}
     /\ (consecutive_failures # 0 /\ consecutive_failures' = 0) =>
          \/ /\ attempted' # attempted
             /\ Len(produced') = Len(produced) + 1
          \/ /\ attempted' = attempted
             /\ consecutive_failures >= 3
             /\ pc' = "process"
     /\ unavailable_patents' # unavailable_patents =>
          /\ consecutive_failures' = consecutive_failures
          /\ attempted' = attempted]_vars

\* C37 witness: after three failures and a restart whose login succeeded,
\* the fourth and fifth identifiers failed; the fifth failure was not found,
\* so with the skip enabled the sixth is marked unavailable with the
\* failure counter left at 2
C37_Witness ==
  /\ Len(attempted) = 5
  /\ Len(failed_patents) = 5
  /\ Len(unavailable_patents) = 1
  /\ consecutive_failures = 2

\* the number of positions of remaining_patents that are in the run's new
\* records, in the failed list or in the unavailable list
Placed(rs, existing, failed, unavailable) ==
  (Len(rs) - Len(existing)) + Len(failed) + Len(unavailable)

\* C38 (Spec): at every point of a run each position of remaining_patents
\* that has had its turn is in exactly one of the run's new records, the
\* failed list and the unavailable list: every turn that is completed puts
\* the identifier of its position at the end of exactly one of the three, no
\* other step adds to any of them, and nothing is added once the loop has
\* been left, so the positions after an abort are in none.
C38_OutcomePartition ==
  /\ [](pc \in {"iter", "process", "refresh"} =>
          Placed(results, existing_results, failed_patents,
                 unavailable_patents) = i - 1)
  /\ [][LET new_records == Len(results') - Len(results)
            new_failed == Len(failed_patents') - Len(failed_patents)
            new_unavailable ==
              Len(unavailable_patents') - Len(unavailable_patents)
            p == remaining_patents[i]
        IN /\ pc \in {"iter", "process", "refresh", "finish", "done"} =>
                /\ new_records \in {0, 1} /\ new_failed \in {0, 1}
                /\ new_unavailable \in {0, 1}
                /\ new_records + new_failed + new_unavailable <= 1
                /\ new_records = 1 =>
                     /\ results' = Append(results, Rec(p, "fetched"))
                     /\ attempted' = Append(attempted, p)
                /\ new_failed = 1 =>
                     /\ failed_patents' = Append(failed_patents, p)
                     /\ attempted' = Append(attempted, p)
                /\ new_unavailable = 1 =>
                     /\ unavailable_patents' = Append(unavailable_patents, p)
                     /\ attempted' = attempted
                /\ new_records + new_failed + new_unavailable = 0 =>
                     /\ results' = results
                     /\ failed_patents' = failed_patents
                     /\ unavailable_patents' = unavailable_patents
           /\ (pc \in {"iter", "process"} /\ i' = i + 1) =>
                new_records + new_failed + new_unavailable = 1
           /\ pc \in {"finish", "done"} =>
                new_records + new_failed + new_unavailable = 0]_vars

\* C38 witness: the first identifier failed, the second gave a record whose
\* save raised, and the run ended there with four positions in no list
C38_Witness ==
  /\ pc = "done"
  /\ Len(remaining_patents) = 6
  /\ i = 2
  /\ Len(failed_patents) = 1
  /\ Len(results) - Len(existing_results) = 1
  /\ unavailable_patents = <<>>

\* C39 (Spec): in a run with skip_search = True on a new processor,
\* _update_performance_profile is never called and the mode and the success
\* streak stay as __init__ left them, the search-failure counter stays 0, the
\* consecutive-not-found streak stays 0, and no identifier is marked
\* unavailable.
C39_DefaultPathInert ==
  skip_search =>
    /\ gov_call.op = "none"
    /\ performance_mode = "fast"
    /\ success_streak = 0
    /\ search_fail_count = 0
    /\ search_success_count = 0
    /\ speed_stats["search"] = <<>>
    /\ consecutive_not_found = 0
    /\ unavailable_patents = <<>>

\* C39 witness: with skip_search and skip_unavailable both true, six
\* identifiers were attempted and all failed, none was marked unavailable
C39_Witness ==
  /\ skip_search /\ skip_unavailable
  /\ pc = "done"
  /\ Len(attempted) = 6
  /\ Len(failed_patents) = 6
  /\ unavailable_patents = <<>>

\* C40 (SpecTemplate): a _capture_direct_search_template call that installs
\* a template where none was set sets the failure counter to 0 and the
\* cooldown timestamp to 0 and leaves the denylist unchanged, so that no
\* cooldown is active for the new template.
C40_LedgerResetOnCapture ==
  [][ (direct_search_template = NoTemplate
         /\ direct_search_template' # NoTemplate)
        => /\ tpl_call'.op = "capture"
           /\ direct_search_failures' = 0
           /\ direct_search_disabled_until' = 0
           /\ direct_search_blocklist' = direct_search_blocklist
           /\ ~CooldownActive(direct_search_disabled_until', now') ]_vars

\* C40 witness: a template was installed during the cooldown that the
\* failures of the previous template had set, with an identifier denylisted
C40_Witness ==
  /\ tpl_call.op = "capture"
  /\ tpl_call.result = "installed"
  /\ tpl_call.live_before # 0 /\ now < tpl_call.live_before
  /\ direct_search_template # NoTemplate
  /\ direct_search_failures = 0
  /\ direct_search_disabled_until = 0
  /\ direct_search_blocklist # {}
=============================================================================
